---------------------------- MODULE Spec2Model ----------------------------
(***************************************************************************)
(* cerebro2mqtt: the bridge between the RS-485 field bus and the MQTT      *)
(* broker.  The module models BridgeService (app/service.py): its          *)
(* lifecycle (start/stop/reload), the polling scheduler (_poll_loop), the  *)
(* transaction engine (_send_with_ack, _resolve_waiters), the broker       *)
(* command handlers and the frame codec they use (app/protocol.py).        *)
(*                                                                         *)
(* Threads of the program and how they appear here:                        *)
(*   - the callers of start/stop/reload (main, the signal handler, the web *)
(*     requests): they serialise on BridgeService._lock, so one control    *)
(*     position cpc suffices;                                              *)
(*   - the poll workers (threads running _poll_loop), slots 1..MaxWorkers; *)
(*   - the broker thread, thread 0, which runs _handle_mqtt_command;       *)
(*   - the serial reader, whose _handle_serial_frame runs under _ack_lock  *)
(*     for the part that touches shared state: one action per frame.       *)
(* A blocking call is split at the places where the thread can be          *)
(* suspended (lock acquisition, Event.wait, Thread.join).  A timeout is a  *)
(* step that is always possible while the wait has not been satisfied.     *)
(***************************************************************************)
EXTENDS Integers, Sequences, FiniteSets, TLC

(***************************************************************************)
(* Bounds of the model.                                                    *)
(***************************************************************************)
\* poll-worker thread slots (threads that run _poll_loop, alive or not)
MaxWorkers == 2
\* longest waiter list handed to _resolve_waiters in SpecResolve
MaxWaiters == 2
\* longest name or topic handed to slugify in SpecSlug
MaxNameLen == 3
\* calls of ConfigStore.update_from_dict in one run of SpecStore
MaxUpdates == 1
\* requests POST /api/config in one run of SpecWeb
MaxRequests == 2

(***************************************************************************)
(* app/protocol.py: constants.                                             *)
(***************************************************************************)
FRAME_START_BYTE == 73
FRAME_END_BYTE == 70
FRAME_LENGTH == 14
FRAME_MIN_LENGTH == 14
FRAME_MAX_LENGTH == 15
DATA_LENGTH == 10
CMD_POLLING_EXTENDED == 64
CMD_POLLING_RESPONSE == 80
CMD_SET_POINT_TEMPERATURE == 90
CMD_SET_SEASON == 107
CMD_LIGHT_CONTROL_START_FIRST_FOUR == 81
CMD_LIGHT_CONTROL_START_FIFTH_ONWARD == 101
CMD_SHUTTER_CONTROL == 92
CMD_DIMMER_CONTROL == 91
CMD_LIGHT_DATA_RELAY_ON == 65
CMD_LIGHT_DATA_RELAY_OFF == 83
CMD_SHUTTER_DATA_UP == 85
CMD_SHUTTER_DATA_DOWN == 68
CMD_DIMMER_DATA == 83

Min(a, b) == IF a < b THEN a ELSE b
Max(a, b) == IF a > b THEN a ELSE b
Abs(a) == IF a < 0 THEN -a ELSE a

\* Values that stand for a raised ProtocolError and for Python's None, one
\* for each type of result:
\*   ProtocolError  a builder raised: no bytes
\*   ParseError     parse_frame raised
\*   PollingError   parse_polling_status raised
\*   NoFrame        None where a ParsedFrame is expected
\*   NoPolling      None where a PollingStatus is expected
ProtocolError == <<>>
ParseError == [address |-> -1, command |-> -1, data |-> <<>>, extra |-> <<>>]
NoFrame == [address |-> 0, command |-> 0, data |-> <<>>, extra |-> <<>>]
PollingError ==
    [device_type |-> -1, outputs |-> 0, inputs |-> 0, dimmer_0_10 |-> 0,
     temperature |-> 0, temperature_setpoint |-> 0, season |-> 0]
NoPolling == [PollingError EXCEPT !.device_type = -2]

\* bytes are 0-indexed in the source: At(b, i) is b[i]
At(b, i) == b[i + 1]

\* int(value) & 0xFF
Mask8(v) == v % 256

\* x & (1 << (channel - 1)) != 0
BitSet(x, channel) == (x \div (2 ^ (channel - 1))) % 2 = 1

(***************************************************************************)
(* app/protocol.py: the codec.                                             *)
(***************************************************************************)
\* a check of the range of a byte
check_address_of_byte(address) == address < 0 \/ address > 255

\* _check_address: does it raise?
check_address(address) == address < 1 \/ address > 254

\* a builder that does not mask the data
build_frame_unmasked(address, command, data) ==
    IF check_address(address) THEN ProtocolError
    ELSE IF Len(data) > DATA_LENGTH THEN ProtocolError
    ELSE <<FRAME_START_BYTE, Mask8(address), Mask8(command)>>
         \o [i \in 1..DATA_LENGTH |-> IF i <= Len(data) THEN data[i] ELSE 0]
         \o <<FRAME_END_BYTE>>

\* build_frame(address, command, data): the 14 bytes, or ProtocolError
build_frame(address, command, data) ==
    IF check_address(address) THEN ProtocolError
    ELSE IF Len(data) > DATA_LENGTH THEN ProtocolError
    ELSE <<FRAME_START_BYTE, Mask8(address), Mask8(command)>>
         \o [i \in 1..DATA_LENGTH |->
                IF i <= Len(data) THEN Mask8(data[i]) ELSE 0]
         \o <<FRAME_END_BYTE>>

\* a parser of frames of FRAME_LENGTH bytes only
parse_frame_fixed_length(raw) ==
    IF Len(raw) # FRAME_LENGTH THEN ParseError
    ELSE IF At(raw, 0) # FRAME_START_BYTE THEN ParseError
    ELSE IF raw[Len(raw)] # FRAME_END_BYTE THEN ParseError
    ELSE [address |-> At(raw, 1),
          command |-> At(raw, 2),
          data    |-> SubSeq(raw, 4, 13),
          extra   |-> <<>>]

\* parse_frame(raw): a ParsedFrame, or ParseError when it raises
parse_frame(raw) ==
    IF Len(raw) < FRAME_MIN_LENGTH \/ Len(raw) > FRAME_MAX_LENGTH
    THEN ParseError
    ELSE IF At(raw, 0) # FRAME_START_BYTE THEN ParseError
    ELSE IF raw[Len(raw)] # FRAME_END_BYTE THEN ParseError
    ELSE [address |-> At(raw, 1),
          command |-> At(raw, 2),
          data    |-> SubSeq(raw, 4, 13),
          extra   |-> IF Len(raw) > FRAME_LENGTH
                      THEN SubSeq(raw, 14, Len(raw) - 1) ELSE <<>>]

build_polling_extended(address) ==
    build_frame(address, CMD_POLLING_EXTENDED, <<>>)

\* temperature_set is in tenths of a degree: int() truncates, the decimal
\* is the rounded tenth
build_set_point_temperature(address, temperature_set) ==
    IF temperature_set < 0 THEN ProtocolError
    ELSE build_frame(address, CMD_SET_POINT_TEMPERATURE,
                     <<temperature_set \div 10, temperature_set % 10>>)

build_set_season(address, season) ==
    IF season \notin {0, 1} THEN ProtocolError
    ELSE build_frame(address, CMD_SET_SEASON, <<season>>)

\* a builder with one bank of commands for the eight relays
light_control_one_bank(address, relay_index, enabled) ==
    IF relay_index < 1 \/ relay_index > 8 THEN ProtocolError
    ELSE LET command == CMD_LIGHT_CONTROL_START_FIRST_FOUR + (relay_index - 1)
             state == IF enabled THEN CMD_LIGHT_DATA_RELAY_ON
                      ELSE CMD_LIGHT_DATA_RELAY_OFF
         IN  build_frame(address, command, <<state>>)

build_light_control(address, relay_index, enabled) ==
    IF relay_index < 1 \/ relay_index > 8 THEN ProtocolError
    ELSE LET command == IF relay_index >= 5
                        THEN CMD_LIGHT_CONTROL_START_FIFTH_ONWARD + (relay_index - 5)
                        ELSE CMD_LIGHT_CONTROL_START_FIRST_FOUR + (relay_index - 1)
             state == IF enabled THEN CMD_LIGHT_DATA_RELAY_ON
                      ELSE CMD_LIGHT_DATA_RELAY_OFF
         IN  build_frame(address, command, <<state>>)

build_shutter_control(address, shutter_index, up) ==
    IF shutter_index < 1 \/ shutter_index > 4 THEN ProtocolError
    ELSE LET action == IF up THEN CMD_SHUTTER_DATA_UP ELSE CMD_SHUTTER_DATA_DOWN
         IN  build_frame(address, CMD_SHUTTER_CONTROL, <<shutter_index, action>>)

\* the level without the cap of 9
percent_to_bus_uncapped(percent) ==
    LET bounded == Max(0, Min(100, percent))
    IN  (bounded * 10) \div 100

percent_to_bus_dimmer(percent) ==
    LET bounded == Max(0, Min(100, percent))
        value == (bounded * 10) \div 100
    IN  Min(9, value)

\* int((bounded / 10.0) * 100) is bounded * 10 for every bounded in 0..10
bus_dimmer_to_percent(value) ==
    LET bounded == Max(0, Min(10, value))
    IN  bounded * 10

build_dimmer_control(address, percent) ==
    build_frame(address, CMD_DIMMER_CONTROL,
                <<CMD_DIMMER_DATA, percent_to_bus_dimmer(percent)>>)

\* a decoder that returns the raw dimmer byte
polling_status_raw_dimmer(frame) ==
    IF frame.command \notin {CMD_POLLING_EXTENDED, CMD_POLLING_RESPONSE}
    THEN PollingError
    ELSE LET t == At(frame.data, 4) * 10 + At(frame.data, 5)
         IN  [device_type |-> At(frame.data, 0),
              outputs     |-> At(frame.data, 1),
              inputs      |-> At(frame.data, 2),
              dimmer_0_10 |-> At(frame.data, 3),
              temperature |-> IF At(frame.data, 6) = 45 THEN -t ELSE t,
              temperature_setpoint |->
                  At(frame.data, 8) * 10 + At(frame.data, 7),
              season      |-> At(frame.data, 9)]

\* parse_polling_status(frame): a PollingStatus, or PollingError.
\* Temperatures are kept in tenths of a degree.
parse_polling_status(frame) ==
    IF frame.command \notin {CMD_POLLING_EXTENDED, CMD_POLLING_RESPONSE}
    THEN PollingError
    ELSE LET raw_dimmer == At(frame.data, 3)
             t == At(frame.data, 4) * 10 + At(frame.data, 5)
         IN  [device_type |-> At(frame.data, 0),
              outputs     |-> At(frame.data, 1),
              inputs      |-> At(frame.data, 2),
              dimmer_0_10 |-> IF raw_dimmer > 8 THEN 10 ELSE raw_dimmer,
              temperature |-> IF At(frame.data, 6) = 45 THEN -t ELSE t,
              temperature_setpoint |->
                  At(frame.data, 8) * 10 + At(frame.data, 7),
              season      |-> At(frame.data, 9)]


(***************************************************************************)
(* app/models.py: device records and configurations.                       *)
(***************************************************************************)
LIGHTS == "luci"
SHUTTERS == "tapparelle"
THERMOSTAT == "termostato"
DIMMER == "dimmer"

\* A str is the sequence of its characters.  The characters of the names
\* and topics of the model: letters of both cases, digits, white space and
\* punctuation.
LowerLetters == {"a", "b", "d", "o", "r"}
UpperLetters == {"A", "B"}
Digits == {"0", "1"}
WhiteSpace == {" "}

\* str.lower() of one character
LowerChar(c) == CASE c = "A" -> "a" [] c = "B" -> "b" [] OTHER -> c

\* does [a-zA-Z0-9] match c?
IsAlnum(c) == c \in LowerLetters \cup UpperLetters \cup Digits

\* str.strip(chars): the characters of the set chars taken off both ends
RECURSIVE LStrip(_, _)
LStrip(str, chars) ==
    IF str # <<>> /\ Head(str) \in chars THEN LStrip(Tail(str), chars) ELSE str

RECURSIVE RStrip(_, _)
RStrip(str, chars) ==
    IF str # <<>> /\ str[Len(str)] \in chars
    THEN RStrip(SubSeq(str, 1, Len(str) - 1), chars) ELSE str

Strip(str, chars) == RStrip(LStrip(str, chars), chars)

Lower(str) == [i \in 1..Len(str) |-> LowerChar(str[i])]

\* re.sub(r"[^a-zA-Z0-9]+", "_", str): every longest run of other
\* characters becomes one underscore
RECURSIVE SubNonAlnum(_)
SubNonAlnum(str) ==
    IF str = <<>> THEN <<>>
    ELSE IF IsAlnum(Head(str)) THEN <<Head(str)>> \o SubNonAlnum(Tail(str))
    ELSE IF Len(str) > 1 /\ ~IsAlnum(str[2]) THEN SubNonAlnum(Tail(str))
    ELSE <<"_">> \o SubNonAlnum(Tail(str))

\* the slug of a name without letters and digits
DefaultSlug == <<"b", "o", "a", "r", "d">>

\* a slugify that keeps the case of the letters
slugify_cased(value) ==
    LET cleaned == Strip(SubNonAlnum(Strip(value, WhiteSpace)), {"_"})
    IN  IF cleaned = <<>> THEN DefaultSlug ELSE cleaned

\* slugify, lines 17-19
slugify(value) ==
    LET cleaned == Strip(SubNonAlnum(Lower(Strip(value, WhiteSpace))), {"_"})
    IN  IF cleaned = <<>> THEN DefaultSlug ELSE cleaned

\* BoardConfig.  topic_slug is the board's key in the slug index; the slug
\* of each board below is its board_id.  publish_enabled is read by
\* app/service.py and set by the tests; the dataclass in app/models.py does
\* not declare it, so the field is taken from the specification's data
\* model ("enabled and publish_enabled flags").
Board(id, type, address, cstart, cend, enabled, publish) ==
    [board_id |-> id, board_type |-> type, address |-> address,
     channel_start |-> cstart, channel_end |-> cend,
     enabled |-> enabled, publish_enabled |-> publish]

\* board.publish_enabled, as app/service.py reads it
publish_enabled(board) == board["publish_enabled"]

\* BoardConfig.topic_slug, lines 37-39: slugify(self.topic or self.name).
\* The boards written with Board() carry their slug as their board_id.
topic_slug(board) ==
    IF "topic" \in DOMAIN board
    THEN slugify(IF board.topic # <<>> THEN board.topic ELSE board.name)
    ELSE board.board_id

primary_channel(board) == board.channel_start

\* channels that always start at 1
channels_from_one(board) ==
    IF board.board_type = LIGHTS
    THEN [i \in 1..Max(0, board.channel_end) |-> i]
    ELSE <<board.channel_start>>

\* BoardConfig.channels, as the list range(start, end + 1)
channels(board) ==
    IF board.board_type = LIGHTS
    THEN [i \in 1..Max(0, board.channel_end - board.channel_start + 1) |->
              board.channel_start + i - 1]
    ELSE <<board.channel_start>>

InSeq(x, s) == \E i \in 1..Len(s) : s[i] = x

\* the configurations the service is run with
BoardL == Board("luci1", LIGHTS, 1, 1, 2, TRUE, TRUE)
BoardS == Board("tapp1", SHUTTERS, 2, 1, 1, TRUE, TRUE)
BoardD == Board("dimm1", DIMMER, 2, 1, 1, TRUE, TRUE)
BoardT == Board("term1", THERMOSTAT, 1, 1, 1, TRUE, TRUE)
BoardOff == Board("off1", LIGHTS, 3, 1, 1, FALSE, TRUE)
BoardMute == Board("mute1", LIGHTS, 1, 3, 3, TRUE, FALSE)

\* AppConfig: polling.auto_start and boards
CfgA == [auto_start |-> TRUE, boards |-> <<BoardL, BoardMute>>]
CfgB == [auto_start |-> FALSE, boards |-> <<BoardL, BoardOff>>]
Configs == {CfgA, CfgB}

\* the configurations of the command-handler specification: every kind of
\* board, two boards on one address, a disabled board
CfgLT == [auto_start |-> FALSE, boards |-> <<BoardL, BoardT>>]
CfgSD == [auto_start |-> FALSE,
          boards |-> <<BoardS, BoardD, BoardOff, BoardMute>>]
CmdConfigs == {CfgLT, CfgSD}

\* the configurations of the sweep specification: boards of three
\* addresses, out of order, one address with a disabled board only
CfgSweep == [auto_start |-> TRUE,
             boards |-> <<BoardS, BoardL, BoardOff, BoardD>>]
SweepConfigs == {CfgSweep, CfgSD}

\* sorted(S) for a finite set of integers
RECURSIVE SortedSeq(_)
SortedSeq(S) ==
    IF S = {} THEN <<>>
    ELSE LET m == CHOOSE x \in S : \A y \in S : x <= y
         IN  <<m>> \o SortedSeq(S \ {m})

RECURSIVE SelectBoards(_, _)
SelectBoards(boards, address) ==
    IF boards = <<>> THEN <<>>
    ELSE LET b == Head(boards)
             rest == SelectBoards(Tail(boards), address)
         IN  IF b.enabled /\ b.address = address THEN <<b>> \o rest ELSE rest

\* _rebuild_indexes: the two indexes of the enabled boards of cfg
rebuild_by_topic(cfg) ==
    LET en == {i \in 1..Len(cfg.boards) : cfg.boards[i].enabled}
        slugs == {topic_slug(cfg.boards[i]) : i \in en}
    IN  [s \in slugs |->
            LET last == CHOOSE i \in en :
                          /\ topic_slug(cfg.boards[i]) = s
                          /\ \A j \in en : topic_slug(cfg.boards[j]) = s => j <= i
            IN  cfg.boards[last]]

\* an index that takes the disabled boards too
index_every_board(cfg) ==
    LET addrs == {cfg.boards[i].address : i \in 1..Len(cfg.boards)}
    IN  [a \in addrs |-> SelectBoards(cfg.boards, a)]

rebuild_by_address(cfg) ==
    LET en == {i \in 1..Len(cfg.boards) : cfg.boards[i].enabled}
        addrs == {cfg.boards[i].address : i \in en}
    IN  [a \in addrs |-> SelectBoards(cfg.boards, a)]

\* dict.get(key, default)
Get(d, key, default) == IF key \in DOMAIN d THEN d[key] ELSE default

(***************************************************************************)
(* app/models.py and app/config_store.py: configurations read from a       *)
(* dict (the JSON of a request or of the file) and the ConfigStore.        *)
(* A dict is a function of its keys.  Of AppConfig the model keeps serial, *)
(* mqtt.port and mqtt.base_topic, polling (interval_sec and auto_start),   *)
(* web.port and boards; timeout_sec is in hundredths of a second.          *)
(***************************************************************************)
BoardTypes == {LIGHTS, SHUTTERS, THERMOSTAT, DIMMER}

\* the name of a board given without one
Scheda == <<"S", "c", "h", "e", "d", "a">>

\* BoardConfig.from_dict, lines 64-87; the dicts of the model carry an id
BoardConfig_from_dict(data) ==
    LET board_type_raw == Get(data, "type", LIGHTS)
        board_type == IF board_type_raw \in BoardTypes THEN board_type_raw
                      ELSE LIGHTS
        legacy_channel == Get(data, "channel", 1)
        channel_start == Get(data, "channel_start", legacy_channel)
        channel_end == Get(data, "channel_end", channel_start)
    IN  [board_id |-> data.id,
         name |-> Strip(Get(data, "name", Scheda), WhiteSpace),
         board_type |-> board_type,
         address |-> Get(data, "address", 1),
         channel_start |-> channel_start,
         channel_end |-> IF board_type # LIGHTS THEN channel_start
                         ELSE channel_end,
         topic |-> Strip(Get(data, "topic", <<>>), WhiteSpace),
         enabled |-> Get(data, "enabled", TRUE)]

\* BoardConfig.to_dict, lines 51-62
BoardConfig_to_dict(board) ==
    [id |-> board.board_id, name |-> board.name, type |-> board.board_type,
     address |-> board.address, channel |-> primary_channel(board),
     channel_start |-> board.channel_start, channel_end |-> board.channel_end,
     topic |-> board.topic, enabled |-> board.enabled]

\* SerialConfig(), lines 91-97
SerialDefaults ==
    [baudrate |-> 9600, bytesize |-> 8, parity |-> "N", stopbits |-> 1,
     timeout_sec |-> 25]

\* str.upper() of a parity
UpperParity(parity) ==
    CASE parity = "n" -> "N" [] parity = "e" -> "E" [] OTHER -> parity

\* SerialConfig.from_dict, lines 109-118
SerialConfig_from_dict(data) ==
    [baudrate |-> Get(data, "baudrate", 9600),
     bytesize |-> Get(data, "bytesize", 8),
     parity |-> IF UpperParity(Get(data, "parity", "N")) = "" THEN "N"
                ELSE UpperParity(Get(data, "parity", "N")),
     stopbits |-> Get(data, "stopbits", 1),
     timeout_sec |-> Get(data, "timeout_sec", 25)]

\* MQTTConfig.from_dict, lines 145-159
MQTTConfig_from_dict(data) ==
    [port |-> Get(data, "port", 1883),
     base_topic |-> IF Get(data, "base_topic", "cerebro2mqtt") = ""
                    THEN "cerebro2mqtt"
                    ELSE Get(data, "base_topic", "cerebro2mqtt")]

\* AppConfig(), lines 216-223
AppDefaults ==
    [serial |-> SerialDefaults,
     mqtt |-> [port |-> 1883, base_topic |-> "cerebro2mqtt"],
     interval_sec |-> 30, auto_start |-> TRUE, web_port |-> 80,
     boards |-> <<>>]

\* AppConfig.from_dict, lines 235-243
AppConfig_from_dict(data) ==
    LET polling == Get(data, "polling", <<>>)
        web == Get(data, "web", <<>>)
        items == Get(data, "boards", <<>>)
    IN  [serial |-> SerialConfig_from_dict(Get(data, "serial", <<>>)),
         mqtt |-> MQTTConfig_from_dict(Get(data, "mqtt", <<>>)),
         interval_sec |-> Get(polling, "interval_sec", 30),
         auto_start |-> Get(polling, "auto_start", TRUE),
         web_port |-> Get(web, "port", 80),
         boards |-> [i \in 1..Len(items) |-> BoardConfig_from_dict(items[i])]]

\* AppConfig.to_dict, lines 225-233
AppConfig_to_dict(cfg) ==
    [serial |-> cfg.serial,
     mqtt |-> cfg.mqtt,
     polling |-> [interval_sec |-> cfg.interval_sec,
                  auto_start |-> cfg.auto_start],
     web |-> [port |-> cfg.web_port],
     boards |-> [i \in 1..Len(cfg.boards) |->
                    BoardConfig_to_dict(cfg.boards[i])]]

\* ConfigStore._validate, lines 67-90: what the loop raises at board i when
\* the boards before it passed, or "ok"
BoardError(cfg, i) ==
    LET board == cfg.boards[i]
    IN  IF board.name = <<>> THEN "name"
        ELSE IF board.address < 1 \/ board.address > 254 THEN "address"
        ELSE IF /\ board.board_type = LIGHTS
                /\ (board.channel_start < 1 \/ board.channel_start > 8)
        THEN "channel_start"
        ELSE IF /\ board.board_type = LIGHTS
                /\ (board.channel_end < 1 \/ board.channel_end > 8)
        THEN "channel_end"
        ELSE IF /\ board.board_type = LIGHTS
                /\ board.channel_start > board.channel_end
        THEN "channel_range"
        ELSE IF /\ board.board_type = SHUTTERS
                /\ (board.channel_start < 1 \/ board.channel_start > 8)
        THEN "channel"
        ELSE IF /\ board.board_type \notin {LIGHTS, SHUTTERS}
                /\ board.channel_start < 1
        THEN "channel"
        ELSE IF \E j \in 1..(i - 1) :
                   topic_slug(cfg.boards[j]) = topic_slug(board)
        THEN "duplicate"
        ELSE "ok"

\* a validation that does not compare the slugs
validate_each_board(cfg) ==
    IF cfg.serial.baudrate <= 0 THEN "baudrate"
    ELSE IF cfg.mqtt.port <= 0 THEN "mqtt_port"
    ELSE IF cfg.interval_sec < 1 THEN "interval"
    ELSE IF cfg.web_port <= 0 THEN "web_port"
    ELSE LET Err(i) == IF BoardError(cfg, i) = "duplicate" THEN "ok"
                       ELSE BoardError(cfg, i)
             bad == {i \in 1..Len(cfg.boards) : Err(i) # "ok"}
         IN  IF bad = {} THEN "ok"
             ELSE Err(CHOOSE i \in bad : \A j \in bad : i <= j)

\* ConfigStore._validate, lines 55-90: the ConfigError it raises, or "ok"
validate(cfg) ==
    IF cfg.serial.baudrate <= 0 THEN "baudrate"
    ELSE IF cfg.mqtt.port <= 0 THEN "mqtt_port"
    ELSE IF cfg.interval_sec < 1 THEN "interval"
    ELSE IF cfg.web_port <= 0 THEN "web_port"
    ELSE LET bad == {i \in 1..Len(cfg.boards) : BoardError(cfg, i) # "ok"}
         IN  IF bad = {} THEN "ok"
             ELSE BoardError(cfg, CHOOSE i \in bad : \A j \in bad : i <= j)

\* the store: its _config and the contents of the file at its path
Store(cfg, file) == [config |-> cfg, file |-> file]

\* what a call on the store returns: a configuration, or the ConfigError
\* or OSError it raised, and the store it leaves
Outcome(raised, value, st) == [raised |-> raised, value |-> value, store |-> st]

\* ConfigStore.save, lines 32-40; disk_ok: the file can be written
save(st, cfg, disk_ok) ==
    IF validate(cfg) # "ok" THEN Outcome(validate(cfg), cfg, st)
    ELSE IF ~disk_ok THEN Outcome("OSError", cfg, st)
    ELSE Outcome("", cfg, Store(cfg, AppConfig_to_dict(cfg)))

\* an update that saves before it validates
save_then_validate(st, data, disk_ok) ==
    LET cfg == AppConfig_from_dict(data)
        saved == IF disk_ok THEN Store(cfg, AppConfig_to_dict(cfg)) ELSE st
    IN  IF validate(cfg) # "ok" THEN Outcome(validate(cfg), cfg, saved)
        ELSE save(st, cfg, disk_ok)

\* ConfigStore.update_from_dict, lines 26-30
update_from_dict(st, data, disk_ok) ==
    LET cfg == AppConfig_from_dict(data)
    IN  IF validate(cfg) # "ok" THEN Outcome(validate(cfg), cfg, st)
        ELSE save(st, cfg, disk_ok)

\* ConfigStore._load_or_create, lines 42-53, over the file at the path
load_or_create(file, disk_ok) ==
    IF file = <<>> THEN save(Store(AppDefaults, file), AppDefaults, disk_ok)
    ELSE LET cfg == AppConfig_from_dict(file)
         IN  Outcome(IF validate(cfg) # "ok" THEN validate(cfg) ELSE "",
                     cfg, Store(cfg, file))

(***************************************************************************)
(* Threads.                                                                *)
(***************************************************************************)
Workers == 1..MaxWorkers
\* the broker client's thread, which runs the command handlers
Broker == 0
Threads == {Broker} \cup Workers
\* the serial reader, as a publisher
Reader == -1
NoThread == -2
\* the thread that calls start() or stop() (main, the signal handler)
Caller == -3

VARIABLES
    config,             \* BridgeService._config
    boards_by_topic,    \* BridgeService._boards_by_topic
    boards_by_address,  \* BridgeService._boards_by_address
    dimmer_cache,       \* BridgeService._dimmer_cache
    running,            \* BridgeService._running
    shutdown_event,     \* BridgeService._shutdown_event
    manual_poll_event,  \* BridgeService._manual_poll_event
    poll_worker,        \* BridgeService._poll_worker (0: None)
    serial,             \* BridgeService._serial is not None
    mqtt,               \* BridgeService._mqtt is not None
    cpc,                \* where the caller holding _lock is in stop/reload
    transaction_lock,   \* the thread holding _transaction_lock
    ack_waiters,        \* BridgeService._ack_waiters, by owning thread
    waiter,             \* each thread's _AckWaiter object
    tpc,                \* each thread's position in _send_with_ack
    txarg,              \* the arguments of each thread's _send_with_ack
    txres,              \* what _send_with_ack returned to each thread
    wpc,                \* each worker's position in _poll_loop
    wloc,               \* each worker's locals: auto_start, triggered, ...
    hpc,                \* the broker thread's position in its handler
    hloc,               \* the handler's locals
    pub,                \* the step just taken: its thread, what it published
                        \* and, for the serial reader, the frame it handled
    hist,               \* history: what the properties refer to
    fn_call,            \* a call of a function on its own: its name and
                        \* its arguments
    fn_ret,             \* what the call returned, once it has returned
    store_config,       \* ConfigStore._config
    store_file,         \* the contents of the file at ConfigStore.path
    store_calls,        \* the calls of ConfigStore.update_from_dict so far
    serial_port         \* SerialBridge._serial: is the handle open, and
                        \* what the last send_frame did: its open failed,
                        \* it wrote, its write raised

vars == <<config, boards_by_topic, boards_by_address, dimmer_cache, running,
          shutdown_event, manual_poll_event, poll_worker, serial, mqtt, cpc,
          transaction_lock, ack_waiters, waiter, tpc, txarg, txres, wpc,
          wloc,
          hpc, hloc, pub, hist, fn_call, fn_ret, store_config, store_file,
          store_calls,
          serial_port>>

svcVars == <<running, shutdown_event, poll_worker, serial, mqtt, cpc>>
cfgVars == <<config, boards_by_topic, boards_by_address>>
txVars == <<transaction_lock, ack_waiters, waiter, tpc, txarg, txres>>
wVars == <<wpc, wloc>>
hVars == <<hpc, hloc>>
fnVars == <<fn_call, fn_ret>>
storeVars == <<store_config, store_file, store_calls>>
\* the variables of the parts that are also modelled on their own
sideVars == <<fnVars, storeVars, serial_port>>
\* every variable of the program
progVars == <<svcVars, cfgVars, txVars, wVars, hVars, dimmer_cache,
              manual_poll_event>>

\* a step that publishes nothing
NoPub == [by |-> NoThread, msgs |-> <<>>, frame |-> NoFrame]

\* a call of start() or stop() that returned at its first test
Returned == [by |-> Caller, msgs |-> <<>>, frame |-> NoFrame]

(***************************************************************************)
(* History: what the properties refer to and the program does not keep.    *)
(*   seenMatch[t]  a frame that t's waiter accepts came in while t was     *)
(*                 between the registration and the end of its wait        *)
(*   sent[t]       t's frame was written to the bus                        *)
(*   waited[t]     t went through the timed wait                           *)
(*   waits         timed waits of the running command handler              *)
(*   batch         requests to poll have come in while a worker was        *)
(*                 blocked in its wait, and no later request raised the    *)
(*                 flag again                                              *)
(*   trigSweeps    the triggered sweeps since the batch began              *)
(*   polled[w]     the addresses worker w has polled in the sweep it is    *)
(*                 in, or has just ended                                   *)
(*   pending, sweeper                                                      *)
(*                 1 after a request to poll that no sweep has followed,   *)
(*                 2 once the worker `sweeper' has begun a sweep after it  *)
(*                 (kept by SpecTrigger only)                              *)
(*   serials, mqtts, workers                                               *)
(*                 the SerialBridge objects, MqttBridge objects and poll   *)
(*                 threads that the service has started and has neither    *)
(*                 stopped nor given up (line 160)                         *)
(***************************************************************************)
History ==
    [seenMatch |-> [t \in Threads |-> FALSE],
     sent |-> [t \in Threads |-> FALSE],
     waited |-> [t \in Threads |-> FALSE],
     waits |-> 0,
     batch |-> FALSE,
     trigSweeps |-> 0,
     polled |-> [w \in Workers |-> <<>>],
     pending |-> 0,
     sweeper |-> NoThread,
     serials |-> 0,
     mqtts |-> 0,
     workers |-> 0]

\* history: the manual-poll flag is raised or cleared by the lifecycle, not
\* by a request to poll
NoBatch(h) == [h EXCEPT !.batch = FALSE, !.trigSweeps = 0]

\* history: _start_components_locked has started one component of each kind
NoteStarted(h) == [h EXCEPT !.serials = @ + 1, !.mqtts = @ + 1,
                            !.workers = @ + 1]


(***************************************************************************)
(* app/service.py: what the service publishes.  A message is its topic     *)
(* below the base topic (slug first), its payload and its retain flag;     *)
(* the timestamp of a record is left out.                                  *)
(***************************************************************************)
Msg(board, path, payload, retain) ==
    [topic |-> <<topic_slug(board)>> \o path, payload |-> payload,
     retain |-> retain]

OnOff(b) == IF b THEN "ON" ELSE "OFF"

\* int(round((percent / 100.0) * 255)): Python rounds a half to even
Brightness255(percent) ==
    LET q == percent * 255
        lo == q \div 100
        r == q % 100
    IN  IF r > 50 THEN lo + 1
        ELSE IF r < 50 THEN lo
        ELSE IF lo % 2 = 0 THEN lo ELSE lo + 1

\* the concatenation of Op(s[i]) over the list s
RECURSIVE ConcatMap(_, _)
ConcatMap(Op(_), s) ==
    IF s = <<>> THEN <<>> ELSE Op(Head(s)) \o ConcatMap(Op, Tail(s))

publish_action_result(board, action, success, detail) ==
    IF ~publish_enabled(board) THEN <<>>
    ELSE <<Msg(board, <<"action", "result">>,
               [action |-> action, success |-> success, detail |-> detail],
               FALSE)>>

publish_poll_result(board, success) ==
    IF ~publish_enabled(board) THEN <<>>
    ELSE <<Msg(board, <<"poll", "last">>, [success |-> success], TRUE)>>

publish_light_channel_state(board, channel, is_on) ==
    IF ~publish_enabled(board) THEN <<>>
    ELSE IF ~InSeq(channel, channels(board)) THEN <<>>
    ELSE <<Msg(board, <<"ch", channel, "state">>, OnOff(is_on), TRUE)>>
         \o (IF Len(channels(board)) = 1 \/ channel = primary_channel(board)
             THEN <<Msg(board, <<"state">>, OnOff(is_on), TRUE)>>
             ELSE <<>>)

SeasonLabel(season) == IF season = 1 THEN "SUMMER" ELSE "WINTER"

\* _publish_board_state_from_polling: the messages it publishes
publish_board_state_from_polling(board, polling) ==
    IF ~publish_enabled(board) THEN <<>>
    ELSE
      LET raw == Msg(board, <<"polling", "raw">>,
                     [device_type |-> polling.device_type,
                      outputs |-> polling.outputs,
                      inputs |-> polling.inputs,
                      dimmer_0_10 |-> polling.dimmer_0_10,
                      temperature |-> polling.temperature,
                      temperature_setpoint |-> polling.temperature_setpoint,
                      season |-> polling.season,
                      address |-> board.address], FALSE)
          chs == channels(board)
          ChState(ch) == OnOff(BitSet(polling.outputs, ch))
          ChMsg(ch) == <<Msg(board, <<"ch", ch, "state">>, ChState(ch), TRUE)>>
          percent == bus_dimmer_to_percent(polling.dimmer_0_10)
      IN  <<raw>> \o
          CASE board.board_type = LIGHTS ->
                 ConcatMap(ChMsg, chs)
                 \o (IF Len(chs) = 1
                     THEN <<Msg(board, <<"state">>, ChState(chs[Len(chs)]), TRUE)>>
                     ELSE <<>>)
            [] board.board_type = SHUTTERS ->
                 <<Msg(board, <<"state">>,
                       IF BitSet(polling.outputs, primary_channel(board))
                       THEN "open" ELSE "closed", TRUE)>>
            [] board.board_type = DIMMER ->
                 <<Msg(board, <<"state">>, OnOff(percent > 0), TRUE),
                   Msg(board, <<"brightness", "state">>,
                       Brightness255(percent), TRUE)>>
            [] board.board_type = THERMOSTAT ->
                 <<Msg(board, <<"temperature", "state">>,
                       polling.temperature, TRUE),
                   Msg(board, <<"setpoint", "state">>,
                       polling.temperature_setpoint, TRUE),
                   Msg(board, <<"season", "state">>,
                       SeasonLabel(polling.season), TRUE)>>
            [] OTHER -> <<>>

\* _publish_board_state_from_polling: the dimmer cache it leaves
cache_from_polling(cache, board, polling) ==
    IF publish_enabled(board) /\ board.board_type = DIMMER
    THEN [k \in DOMAIN cache \cup {board.board_id} |->
             IF k = board.board_id
             THEN bus_dimmer_to_percent(polling.dimmer_0_10) ELSE cache[k]]
    ELSE cache

RECURSIVE cache_from_polling_all(_, _, _)
cache_from_polling_all(cache, boards, polling) ==
    IF boards = <<>> THEN cache
    ELSE cache_from_polling_all(cache_from_polling(cache, Head(boards), polling),
                                Tail(boards), polling)

IsLightCommand(command) ==
    \/ /\ CMD_LIGHT_CONTROL_START_FIRST_FOUR <= command
       /\ command <= CMD_LIGHT_CONTROL_START_FIRST_FOUR + 3
    \/ /\ CMD_LIGHT_CONTROL_START_FIFTH_ONWARD <= command
       /\ command <= CMD_LIGHT_CONTROL_START_FIFTH_ONWARD + 3

\* the percent a spontaneous dimmer frame carries
DimmerFramePercent(frame) ==
    bus_dimmer_to_percent(IF At(frame.data, 1) > 8 THEN 10 ELSE At(frame.data, 1))

\* _handle_non_polling_frame: the messages it publishes
handle_non_polling_frame(by_address, frame) ==
    LET boards == Get(by_address, frame.address, <<>>)
        command == frame.command
        channel == IF command >= CMD_LIGHT_CONTROL_START_FIFTH_ONWARD
                   THEN (command - CMD_LIGHT_CONTROL_START_FIFTH_ONWARD) + 5
                   ELSE (command - CMD_LIGHT_CONTROL_START_FIRST_FOUR) + 1
        LightMsg(b) ==
            IF b.board_type # LIGHTS THEN <<>>
            ELSE publish_light_channel_state(
                     b, channel, At(frame.data, 0) = CMD_LIGHT_DATA_RELAY_ON)
        DimmerMsg(b) ==
            IF b.board_type # DIMMER \/ ~publish_enabled(b) THEN <<>>
            ELSE <<Msg(b, <<"state">>, OnOff(DimmerFramePercent(frame) > 0), TRUE),
                   Msg(b, <<"brightness", "state">>,
                       Brightness255(DimmerFramePercent(frame)), TRUE)>>
        SetpointMsg(b) ==
            IF b.board_type # THERMOSTAT \/ ~publish_enabled(b) THEN <<>>
            ELSE <<Msg(b, <<"setpoint", "state">>,
                       At(frame.data, 0) * 10 + At(frame.data, 1), TRUE)>>
        SeasonMsg(b) ==
            IF b.board_type # THERMOSTAT \/ ~publish_enabled(b) THEN <<>>
            ELSE <<Msg(b, <<"season", "state">>,
                       SeasonLabel(At(frame.data, 0)), TRUE)>>
    IN  IF boards = <<>> THEN <<>>
        ELSE IF IsLightCommand(command)
        THEN IF At(frame.data, 0) \in {CMD_LIGHT_DATA_RELAY_ON,
                                       CMD_LIGHT_DATA_RELAY_OFF}
             THEN ConcatMap(LightMsg, boards) ELSE <<>>
        ELSE IF command = CMD_DIMMER_CONTROL
        THEN IF At(frame.data, 0) # CMD_DIMMER_DATA THEN <<>>
             ELSE ConcatMap(DimmerMsg, boards)
        ELSE IF command = CMD_SET_POINT_TEMPERATURE
        THEN ConcatMap(SetpointMsg, boards)
        ELSE IF command = CMD_SET_SEASON
        THEN ConcatMap(SeasonMsg, boards)
        ELSE <<>>

\* _handle_non_polling_frame: the dimmer cache it leaves
RECURSIVE cache_from_dimmer_frame(_, _, _)
cache_from_dimmer_frame(cache, boards, frame) ==
    IF boards = <<>> THEN cache
    ELSE LET b == Head(boards)
             c == IF b.board_type = DIMMER /\ publish_enabled(b)
                  THEN [k \in DOMAIN cache \cup {b.board_id} |->
                           IF k = b.board_id THEN DimmerFramePercent(frame)
                           ELSE cache[k]]
                  ELSE cache
         IN  cache_from_dimmer_frame(c, Tail(boards), frame)

(***************************************************************************)
(* app/service.py: the transaction engine.                                 *)
(***************************************************************************)
\* A matcher is the predicate a caller hands to _send_with_ack:
\*   "poll"   rx.command in (CMD_POLLING_EXTENDED, CMD_POLLING_RESPONSE)
\*   "echo1"  rx.command == expected_command and rx.data[0] == expected_data0
\*   "echo2"  ... and rx.data[1] == expected_data1
\*   "raise"  a predicate that raises (no caller of the service passes one)
Matcher(kind, command, data0, data1) ==
    [kind |-> kind, command |-> command, data0 |-> data0, data1 |-> data1]

PollMatcher == Matcher("poll", 0, 0, 0)

\* the matcher of an echo of the built frame, on its command and its first
\* one or two data bytes
EchoMatcher(kind, frame) ==
    Matcher(kind, At(frame, 2), At(frame, 3), At(frame, 4))

Accepted == "accepted"
Rejected == "rejected"
Raised == "raised"

Verdict(b) == IF b THEN Accepted ELSE Rejected

\* waiter.matcher(frame): Accepted (True), Rejected (False) or Raised
matcher_call(m, frame) ==
    CASE m.kind = "poll" ->
           Verdict(frame.command \in {CMD_POLLING_EXTENDED, CMD_POLLING_RESPONSE})
      [] m.kind = "echo1" ->
           Verdict(frame.command = m.command /\ At(frame.data, 0) = m.data0)
      [] m.kind = "echo2" ->
           Verdict(/\ frame.command = m.command
                   /\ At(frame.data, 0) = m.data0
                   /\ At(frame.data, 1) = m.data1)
      [] OTHER -> Raised

\* _AckWaiter(address, matcher): event clear, no frame
AckWaiter(address, matcher) ==
    [address |-> address, matcher |-> matcher, event |-> FALSE,
     frame |-> NoFrame]

NoWaiter == AckWaiter(0, Matcher("none", 0, 0, 0))

\* a loop that does not compare the addresses
accepts_any_address(w, frame) == matcher_call(w.matcher, frame) = Accepted

\* _resolve_waiters, lines 265-273: does the loop complete waiter w?
Accepts(w, frame) ==
    /\ w.address = frame.address
    /\ matcher_call(w.matcher, frame) = Accepted

\* _resolve_waiters: the waiter objects after the frame
resolve_waiters_objects(list, objects, frame) ==
    [t \in DOMAIN objects |->
        IF InSeq(t, list) /\ Accepts(objects[t], frame)
        THEN [objects[t] EXCEPT !.frame = frame, !.event = TRUE]
        ELSE objects[t]]

\* a loop that completes waiters and removes none
resolve_none_removed(list, objects, frame) == list

\* _resolve_waiters: the waiter list after the frame
resolve_waiters_list(list, objects, frame) ==
    LET Keep(t) == ~Accepts(objects[t], frame)
    IN  SelectSeq(list, Keep)

\* _discard_waiter
discard_waiter(list, t) ==
    LET Keep(u) == u # t
    IN  SelectSeq(list, Keep)

\* _send_frame: the results serial.send_frame can give.  With no bridge
\* the frame is not sent; with one, the write succeeds or fails (the port
\* cannot be opened, or the write raises).
send_frame_results == IF serial THEN {TRUE, FALSE} ELSE {FALSE}

\* a thread calls _send_with_ack(frame, address, matcher, timeout)
TxCall(t, address, matcher) ==
    /\ tpc[t] = "idle"
    /\ tpc' = [tpc EXCEPT ![t] = "lock"]
    /\ txarg' = [txarg EXCEPT ![t] = [address |-> address, matcher |-> matcher]]
    /\ UNCHANGED <<transaction_lock, ack_waiters, waiter, txres>>

\* a _send_with_ack that does not take the lock
lock_ignored(t) == TRUE

\* may thread t take _transaction_lock?
lock_free(t) == transaction_lock = NoThread

\* lines 239-242: take the transaction lock, create and register the waiter
TxAcquire(t) ==
    /\ tpc[t] = "lock"
    /\ lock_free(t)
    /\ transaction_lock' = t
    /\ waiter' = [waiter EXCEPT
                    ![t] = AckWaiter(txarg[t].address, txarg[t].matcher)]
    /\ ack_waiters' = Append(ack_waiters, t)
    /\ tpc' = [tpc EXCEPT ![t] = "send"]
    /\ hist' = [hist EXCEPT !.seenMatch[t] = FALSE, !.sent[t] = FALSE,
                            !.waited[t] = FALSE]
    /\ pub' = NoPub
    /\ UNCHANGED <<txarg, txres, svcVars, cfgVars, sideVars, wVars, hVars, dimmer_cache,
                   manual_poll_event>>

\* a return that leaves the waiter in the list
waiter_left(list, t) == list

\* the waiter list after a failed send (lines 245-247)
after_send_failure(list, t) == discard_waiter(list, t)

\* lines 244-247 when _send_frame returned sent: on failure discard the
\* waiter and return
TxSentAt(stage, t, sent) ==
    /\ tpc[t] = stage
    /\ IF sent
       THEN /\ tpc' = [tpc EXCEPT ![t] = "wait"]
            /\ hist' = [hist EXCEPT !.sent[t] = TRUE]
            /\ UNCHANGED <<transaction_lock, ack_waiters, txres>>
       ELSE /\ ack_waiters' = after_send_failure(ack_waiters, t)
            /\ transaction_lock' = NoThread
            /\ txres' = [txres EXCEPT ![t] = [ok |-> FALSE, rx |-> NoFrame]]
            /\ tpc' = [tpc EXCEPT ![t] = "ret"]
            /\ UNCHANGED hist
    /\ pub' = NoPub
    /\ UNCHANGED <<waiter, txarg, svcVars, cfgVars, wVars, hVars, dimmer_cache,
                   manual_poll_event>>

TxSent(t, sent) == TxSentAt("send", t, sent)

\* lines 244-247: send the frame; on failure discard the waiter and return
TxSend(t) ==
    \E sent \in send_frame_results : TxSent(t, sent) /\ UNCHANGED sideVars

\* history: thread t went through the timed wait of line 249
NoteWait(h, t) ==
    [h EXCEPT !.waited[t] = TRUE,
              !.waits = IF t = Broker THEN h.waits + 1 ELSE h.waits]

\* lines 249, 254: the event is set: return (True, waiter.frame)
TxSignalled(t) ==
    /\ tpc[t] = "wait"
    /\ waiter[t].event
    /\ txres' = [txres EXCEPT ![t] = [ok |-> TRUE, rx |-> waiter[t].frame]]
    /\ transaction_lock' = NoThread
    /\ tpc' = [tpc EXCEPT ![t] = "ret"]
    /\ hist' = NoteWait(hist, t)
    /\ pub' = NoPub
    /\ UNCHANGED <<ack_waiters, waiter, txarg, svcVars, cfgVars, sideVars, wVars, hVars,
                   dimmer_cache, manual_poll_event>>

\* line 249: event.wait(timeout) returns False: the deadline passed with the
\* event not set
TxTimeout(t) ==
    /\ tpc[t] = "wait"
    /\ ~waiter[t].event
    /\ tpc' = [tpc EXCEPT ![t] = "expired"]
    /\ hist' = NoteWait(hist, t)
    /\ pub' = NoPub
    /\ UNCHANGED <<transaction_lock, ack_waiters, waiter, txarg, txres,
                   svcVars, cfgVars, sideVars, wVars, hVars, dimmer_cache,
                   manual_poll_event>>

\* a timeout that leaves the waiter in the list
waiter_kept(list, t) == list

\* the waiter list after a timeout (lines 250-252)
after_timeout(list, t) == discard_waiter(list, t)

\* lines 250-252: discard the waiter and return (False, None)
TxExpire(t) ==
    /\ tpc[t] = "expired"
    /\ ack_waiters' = after_timeout(ack_waiters, t)
    /\ transaction_lock' = NoThread
    /\ txres' = [txres EXCEPT ![t] = [ok |-> FALSE, rx |-> NoFrame]]
    /\ tpc' = [tpc EXCEPT ![t] = "ret"]
    /\ pub' = NoPub
    /\ UNCHANGED <<waiter, txarg, hist, svcVars, cfgVars, sideVars, wVars, hVars,
                   dimmer_cache, manual_poll_event>>

\* history: the caller has taken the result of its transaction
ForgetTx(h, t) ==
    [h EXCEPT !.seenMatch[t] = FALSE, !.sent[t] = FALSE, !.waited[t] = FALSE]

NoArgs == [address |-> 0, matcher |-> PollMatcher]
NoResult == [ok |-> FALSE, rx |-> NoFrame]

\* _send_with_ack has returned to its caller: its frame is gone, the
\* waiter, the arguments and the result are garbage
TxReturned(t) ==
    /\ tpc[t] = "ret"
    /\ tpc' = [tpc EXCEPT ![t] = "idle"]
    /\ waiter' = [waiter EXCEPT ![t] = NoWaiter]
    /\ txarg' = [txarg EXCEPT ![t] = NoArgs]
    /\ txres' = [txres EXCEPT ![t] = NoResult]
    /\ hist' = ForgetTx(hist, t)
    /\ UNCHANGED <<transaction_lock, ack_waiters>>

\* one step of some thread inside _send_with_ack
send_with_ack(t) ==
    \/ TxAcquire(t)
    \/ TxSend(t)
    \/ TxSignalled(t)
    \/ TxTimeout(t)
    \/ TxExpire(t)

\* publish through self._mqtt: nothing when the broker link is gone
Published(msgs) == IF mqtt THEN msgs ELSE <<>>

\* the record of an operation of thread t that publishes msgs
PublishedBy(t, msgs) ==
    [by |-> t, msgs |-> Published(msgs), frame |-> NoFrame]

\* a dispatch of the polling frames only
dispatch_polling_only(by_address, frame) ==
    IF frame.command \notin {CMD_POLLING_EXTENDED, CMD_POLLING_RESPONSE}
    THEN <<>>
    ELSE LET polling == parse_polling_status(frame)
             Project(b) == publish_board_state_from_polling(b, polling)
         IN  ConcatMap(Project, Get(by_address, frame.address, <<>>))

\* _handle_serial_frame, lines 694-706: the messages of the dispatch
dispatch_messages(by_address, frame) ==
    IF frame.command \notin {CMD_POLLING_EXTENDED, CMD_POLLING_RESPONSE}
    THEN handle_non_polling_frame(by_address, frame)
    ELSE LET polling == parse_polling_status(frame)
             Project(b) == publish_board_state_from_polling(b, polling)
         IN  ConcatMap(Project, Get(by_address, frame.address, <<>>))

\* _handle_serial_frame: the dimmer cache after the dispatch
dispatch_cache(cache, by_address, frame) ==
    LET boards == Get(by_address, frame.address, <<>>)
    IN  IF frame.command \in {CMD_POLLING_EXTENDED, CMD_POLLING_RESPONSE}
        THEN cache_from_polling_all(cache, boards, parse_polling_status(frame))
        ELSE IF frame.command = CMD_DIMMER_CONTROL
                /\ At(frame.data, 0) = CMD_DIMMER_DATA
        THEN cache_from_dimmer_frame(cache, boards, frame)
        ELSE cache

\* history: a frame that a registered waiter's address and predicate accept
\* arrived between the waiter's registration and its deadline
NoteFrame(h, frame) ==
    [h EXCEPT !.seenMatch =
        [t \in Threads |->
            \/ h.seenMatch[t]
            \/ /\ tpc[t] \in {"send", "wait"}
               /\ txarg[t].address = frame.address
               /\ matcher_call(txarg[t].matcher, frame) = Accepted]]

\* the serial reader hands a parsed frame to _handle_serial_frame
handle_serial_frame(frame) ==
    /\ serial
    /\ waiter' = resolve_waiters_objects(ack_waiters, waiter, frame)
    /\ ack_waiters' = resolve_waiters_list(ack_waiters, waiter, frame)
    /\ pub' = [PublishedBy(Reader,
                           dispatch_messages(boards_by_address, frame))
                  EXCEPT !.frame = frame]
    /\ dimmer_cache' = dispatch_cache(dimmer_cache, boards_by_address, frame)
    /\ hist' = NoteFrame(hist, frame)
    /\ UNCHANGED <<transaction_lock, tpc, txarg, txres, svcVars, cfgVars, sideVars,
                   wVars, hVars, manual_poll_event>>

(***************************************************************************)
(* app/service.py: _send_poll, used by the poll worker and by the broker   *)
(* command {slug}/poll/set.                                                *)
(***************************************************************************)
\* _send_poll, lines 209-217: ok after the decode
send_poll_ok(res) ==
    /\ res.ok
    /\ res.rx # NoFrame => parse_polling_status(res.rx) # PollingError

\* _send_poll, lines 209-221: what it publishes once the transaction returned
send_poll_messages(by_address, address, res) ==
    LET boards == Get(by_address, address, <<>>)
        Project(b) == publish_board_state_from_polling(
                          b, parse_polling_status(res.rx))
        Result(b) == publish_poll_result(b, send_poll_ok(res))
    IN  (IF res.ok /\ res.rx # NoFrame /\ parse_polling_status(res.rx) # PollingError
         THEN ConcatMap(Project, boards) ELSE <<>>)
        \o ConcatMap(Result, boards)

\* _send_poll: the dimmer cache it leaves
send_poll_cache(cache, by_address, address, res) ==
    IF res.ok /\ res.rx # NoFrame /\ parse_polling_status(res.rx) # PollingError
    THEN cache_from_polling_all(cache, Get(by_address, address, <<>>),
                                parse_polling_status(res.rx))
    ELSE cache

(***************************************************************************)
(* app/service.py: the polling scheduler, _poll_loop.                      *)
(*   "none"    the slot holds no thread: none was started in it, or the   *)
(*             one that was has returned                                   *)
(*   "loop"    line 173, the while test        "cfg"    lines 174-176      *)
(*   "wait"    line 179, entering Event.wait   "waiting" blocked in it     *)
(*   "chk"     lines 181-189                   "clear"  line 185           *)
(*   "sweep"   _poll_all_addresses, line 193   "poll"   lines 196-198      *)
(***************************************************************************)
WorkerLocals == [auto_start |-> FALSE, triggered |-> FALSE, notified |-> FALSE,
                 addresses |-> <<>>]

Alive(w) == wpc[w] # "none"

\* BridgeService._lock is free: no caller is inside start/stop/reload
config_lock_free == cpc = "idle"

\* line 173: while not self._shutdown_event.is_set()
WLoop(w) ==
    /\ wpc[w] = "loop"
    /\ wpc' = [wpc EXCEPT ![w] = IF shutdown_event THEN "none" ELSE "cfg"]
    /\ hist' = [hist EXCEPT !.polled[w] = <<>>]
    /\ pub' = NoPub
    /\ UNCHANGED <<wloc, svcVars, cfgVars, sideVars, txVars, hVars, dimmer_cache,
                   manual_poll_event>>

\* lines 174-178: read interval and auto_start under the lock
WCfg(w) ==
    /\ wpc[w] = "cfg"
    /\ config_lock_free
    /\ wloc' = [wloc EXCEPT ![w].auto_start = config.auto_start]
    /\ wpc' = [wpc EXCEPT ![w] = "wait"]
    /\ pub' = NoPub
    /\ UNCHANGED <<hist, svcVars, cfgVars, sideVars, txVars, hVars, dimmer_cache,
                   manual_poll_event>>

\* line 179: Event.wait finds the flag set and returns True, or blocks
WWaitEnter(w) ==
    /\ wpc[w] = "wait"
    /\ IF manual_poll_event
       THEN /\ wloc' = [wloc EXCEPT ![w].triggered = TRUE]
            /\ wpc' = [wpc EXCEPT ![w] = "chk"]
       ELSE /\ wloc' = [wloc EXCEPT ![w].notified = FALSE]
            /\ wpc' = [wpc EXCEPT ![w] = "waiting"]
    /\ pub' = NoPub
    /\ UNCHANGED <<hist, svcVars, cfgVars, sideVars, txVars, hVars, dimmer_cache,
                   manual_poll_event>>

\* line 179: Event.set() woke the waiting thread: wait returns True
WWoken(w) ==
    /\ wpc[w] = "waiting"
    /\ wloc[w].notified
    /\ wloc' = [wloc EXCEPT ![w].triggered = TRUE]
    /\ wpc' = [wpc EXCEPT ![w] = "chk"]
    /\ pub' = NoPub
    /\ UNCHANGED <<hist, svcVars, cfgVars, sideVars, txVars, hVars, dimmer_cache,
                   manual_poll_event>>

\* line 179: the interval passed with no set(): wait returns False.  With
\* auto_start off the timeout is None and the wait has no deadline.
WWaitTimeout(w) ==
    /\ wpc[w] = "waiting"
    /\ ~wloc[w].notified
    /\ wloc[w].auto_start
    /\ wloc' = [wloc EXCEPT ![w].triggered = FALSE]
    /\ wpc' = [wpc EXCEPT ![w] = "chk"]
    /\ pub' = NoPub
    /\ UNCHANGED <<hist, svcVars, cfgVars, sideVars, txVars, hVars, dimmer_cache,
                   manual_poll_event>>

\* lines 181-190: where the worker goes after the wait
after_wait(shutdown, triggered, auto_start) ==
    IF shutdown THEN "none"
    ELSE IF triggered THEN "clear"
    ELSE IF auto_start THEN "sweep"
    ELSE "loop"

\* lines 181-189: the shutdown test and the choice of the branch
WCheck(w) ==
    /\ wpc[w] = "chk"
    /\ wpc' = [wpc EXCEPT ![w] = after_wait(shutdown_event, wloc[w].triggered,
                                            wloc[w].auto_start)]
    /\ wloc' = [wloc EXCEPT ![w] = IF wpc'[w] \in {"none", "loop"}
                                   THEN WorkerLocals ELSE @]
    /\ pub' = NoPub
    /\ UNCHANGED <<hist, svcVars, cfgVars, sideVars, txVars, hVars, dimmer_cache,
                   manual_poll_event>>

\* line 185: self._manual_poll_event.clear(), then the sweep of line 186
WClear(w) ==
    /\ wpc[w] = "clear"
    /\ manual_poll_event' = FALSE
    /\ wpc' = [wpc EXCEPT ![w] = "sweep"]
    /\ hist' = [hist EXCEPT !.trigSweeps = IF hist.batch THEN @ + 1 ELSE @]
    /\ pub' = NoPub
    /\ UNCHANGED <<wloc, svcVars, cfgVars, sideVars, txVars, hVars, dimmer_cache>>

\* lines 192-194: _poll_all_addresses reads the sorted addresses under the
\* lock; the sweep begins
SweepBegins(w) ==
    /\ wpc[w] = "sweep"
    /\ config_lock_free
    /\ LET addresses == SortedSeq(DOMAIN boards_by_address)
       IN  /\ wloc' = [wloc EXCEPT ![w] = IF addresses = <<>> THEN WorkerLocals
                                           ELSE [@ EXCEPT !.addresses = addresses]]
           /\ wpc' = [wpc EXCEPT ![w] = IF addresses = <<>> THEN "loop"
                                        ELSE "poll"]
    /\ pub' = NoPub
    /\ UNCHANGED <<svcVars, cfgVars, sideVars, txVars, hVars, dimmer_cache,
                   manual_poll_event>>

WSweep(w) == SweepBegins(w) /\ UNCHANGED hist

\* lines 196-197 and 201-207: _send_poll(address) starts its transaction
WPollCall(w) ==
    /\ wpc[w] = "poll"
    /\ wloc[w].addresses # <<>>
    /\ TxCall(w, Head(wloc[w].addresses), PollMatcher)
    /\ hist' = [hist EXCEPT !.polled[w] = Append(@, Head(wloc[w].addresses))]
    /\ pub' = NoPub
    /\ UNCHANGED <<wVars, svcVars, cfgVars, sideVars, hVars, dimmer_cache,
                   manual_poll_event>>

\* lines 209-224 and 198: the transaction returned; publish, next address
WPollDone(w) ==
    /\ wpc[w] = "poll"
    /\ TxReturned(w)
    /\ LET address == Head(wloc[w].addresses)
           rest == Tail(wloc[w].addresses)
       IN  /\ pub' = PublishedBy(w, send_poll_messages(
                                       boards_by_address, address, txres[w]))
           /\ dimmer_cache' = send_poll_cache(dimmer_cache, boards_by_address,
                                              address, txres[w])
           /\ wloc' = [wloc EXCEPT ![w] = IF rest = <<>> THEN WorkerLocals
                                           ELSE [@ EXCEPT !.addresses = rest]]
           /\ wpc' = [wpc EXCEPT ![w] = IF rest = <<>> THEN "loop" ELSE "poll"]
    /\ UNCHANGED <<svcVars, cfgVars, sideVars, hVars, manual_poll_event>>

\* one step of the thread in slot w
poll_loop(w) ==
    \/ WLoop(w)
    \/ WCfg(w)
    \/ WWaitEnter(w)
    \/ WWoken(w)
    \/ WWaitTimeout(w)
    \/ WCheck(w)
    \/ WClear(w)
    \/ WSweep(w)
    \/ WPollCall(w)
    \/ WPollDone(w)

(***************************************************************************)
(* app/service.py: trigger_poll_all, start, stop, reload.                  *)
(***************************************************************************)
\* Event.set() on _manual_poll_event: the flag, and every thread blocked in
\* wait() is woken
NotifyAll(loc) ==
    [w \in Workers |->
        IF wpc[w] = "waiting" THEN [loc[w] EXCEPT !.notified = TRUE] ELSE loc[w]]

\* history: a request to poll.  A request that raises the flag while a
\* worker is blocked in its wait starts a batch; the requests that find the
\* flag up belong to the batch under way.
NoteRequest(h) ==
    IF manual_poll_event THEN h
    ELSE [h EXCEPT !.batch = \E w \in Workers : wpc[w] = "waiting",
                   !.trigSweeps = 0]

\* trigger_poll_all (the web request /api/poll)
PollRequested ==
    /\ manual_poll_event' = TRUE
    /\ wloc' = NotifyAll(wloc)
    /\ pub' = NoPub
    /\ UNCHANGED <<wpc, svcVars, cfgVars, sideVars, txVars, hVars, dimmer_cache>>

trigger_poll_all == PollRequested /\ hist' = NoteRequest(hist)

FreeSlots == {w \in Workers : ~Alive(w)}

\* _start_components_locked: the slot of the new poll worker
NewWorker == CHOOSE w \in FreeSlots : \A v \in FreeSlots : w <= v

\* a start() that takes every service for a stopped one
never_running == FALSE

\* line 81: if self._running: return
already_running == running

\* start(): lines 80-86 and 137-149
start ==
    /\ config_lock_free
    /\ IF already_running
       THEN /\ pub' = Returned
            /\ UNCHANGED <<progVars, sideVars, hist>>
       ELSE /\ FreeSlots # {}
            /\ running' = TRUE
            /\ shutdown_event' = FALSE
            /\ manual_poll_event' = FALSE
            /\ serial' = TRUE
            /\ mqtt' = TRUE
            /\ poll_worker' = NewWorker
            /\ wpc' = [wpc EXCEPT ![NewWorker] = "loop"]
            /\ wloc' = [wloc EXCEPT ![NewWorker] = WorkerLocals]
            /\ hist' = NoteStarted(NoBatch(hist))
            /\ pub' = NoPub
            /\ UNCHANGED <<cpc, cfgVars, sideVars, txVars, hVars, dimmer_cache>>

\* the manual-poll flag as stop() and reload() leave it at lines 94 and 102
stop_signal == TRUE

\* history: lines 152-154, 155-157 and 158-160 of _stop_components_locked
NoteSerialStopped(h) == [h EXCEPT !.serials = IF serial THEN @ - 1 ELSE @]
NoteMqttStopped(h) == [h EXCEPT !.mqtts = IF mqtt THEN @ - 1 ELSE @]
NoteWorkerLeft(h) == [h EXCEPT !.workers = IF poll_worker # 0 THEN @ - 1 ELSE @]

\* stop(): lines 89-94, then _stop_components_locked up to the serial link
\* (lines 152-154); the caller keeps _lock
StopRunning ==
    /\ running' = FALSE
    /\ shutdown_event' = TRUE
    /\ manual_poll_event' = (manual_poll_event \/ stop_signal)
    /\ wloc' = IF stop_signal THEN NotifyAll(wloc) ELSE wloc
    /\ serial' = FALSE
    /\ cpc' = "stop_mqtt"
    /\ hist' = NoteSerialStopped(NoBatch(hist))
    /\ pub' = NoPub
    /\ UNCHANGED <<poll_worker, mqtt, wpc, cfgVars, txVars, hVars, dimmer_cache>>

\* stop(): on a stopped service it returns at line 91
StopBegin ==
    /\ config_lock_free
    /\ IF ~running
       THEN /\ pub' = Returned
            /\ UNCHANGED <<progVars, sideVars, hist>>
       ELSE StopRunning /\ UNCHANGED sideVars

\* reload(): lines 98-103 for a running service, then as stop()
ReloadBegin ==
    /\ config_lock_free
    /\ running
    /\ FreeSlots # {}
    /\ shutdown_event' = TRUE
    /\ manual_poll_event' = TRUE
    /\ wloc' = NotifyAll(wloc)
    /\ serial' = FALSE
    /\ cpc' = "reload_mqtt"
    /\ hist' = NoteSerialStopped(NoBatch(hist))
    /\ pub' = NoPub
    /\ UNCHANGED <<running, poll_worker, mqtt, wpc, cfgVars, sideVars, txVars, hVars,
                   dimmer_cache>>

\* lines 155-157: MqttBridge.stop() joins the broker thread, which ends
\* after the callback it is running
StopMqtt ==
    /\ cpc \in {"stop_mqtt", "reload_mqtt"}
    /\ hpc = "idle"
    /\ mqtt' = FALSE
    /\ cpc' = IF cpc = "stop_mqtt" THEN "stop_join" ELSE "reload_join"
    /\ hist' = NoteMqttStopped(hist)
    /\ pub' = NoPub
    /\ UNCHANGED <<running, shutdown_event, poll_worker, serial, wVars,
                   cfgVars, sideVars, txVars, hVars, dimmer_cache, manual_poll_event>>

\* a join without timeout
join_without_timeout(w) == FALSE

\* line 159: join(timeout=2) on a worker that has not ended returns once
\* two seconds have passed.  The model lets them pass only while the worker
\* is blocked: on _lock, which the caller of stop() or reload() holds (lines
\* 174 and 193), or in a wait that nobody has woken.  A worker that can run
\* is waited for.
join_returns(w) ==
    \/ wpc[w] \in {"cfg", "sweep"}
    \/ wpc[w] = "waiting" /\ ~wloc[w].notified

\* lines 158-160: join the poll worker for at most two seconds, forget it
StopJoin ==
    /\ cpc \in {"stop_join", "reload_join"}
    /\ poll_worker # 0 /\ Alive(poll_worker) => join_returns(poll_worker)
    /\ poll_worker' = 0
    /\ cpc' = IF cpc = "stop_join" THEN "idle" ELSE "reload_restart"
    /\ hist' = NoteWorkerLeft(hist)
    /\ pub' = NoPub
    /\ UNCHANGED <<running, shutdown_event, serial, mqtt, wVars, cfgVars, sideVars,
                   txVars, hVars, dimmer_cache, manual_poll_event>>

\* reload(): lines 105-111, the configuration c that the store holds, the
\* indexes, and the components started again
ReloadRestartTo(c) ==
    /\ cpc = "reload_restart"
    /\ FreeSlots # {}
    /\ config' = c
    /\ boards_by_topic' = rebuild_by_topic(c)
    /\ boards_by_address' = rebuild_by_address(c)
    /\ shutdown_event' = FALSE
    /\ manual_poll_event' = FALSE
    /\ serial' = TRUE
    /\ mqtt' = TRUE
    /\ poll_worker' = NewWorker
    /\ wpc' = [wpc EXCEPT ![NewWorker] = "loop"]
    /\ wloc' = [wloc EXCEPT ![NewWorker] = WorkerLocals]
    /\ cpc' = "idle"
    /\ hist' = NoteStarted(NoBatch(hist))
    /\ pub' = NoPub
    /\ UNCHANGED <<running, txVars, hVars, dimmer_cache>>

\* reload() after stop: the store holds any of the configurations
ReloadRestart == \E c \in Configs : ReloadRestartTo(c) /\ UNCHANGED sideVars

\* reload() of a service that is not running: lines 105-106 only
ReloadStoppedTo(c) ==
    /\ config_lock_free
    /\ ~running
    /\ config' = c
    /\ boards_by_topic' = rebuild_by_topic(c)
    /\ boards_by_address' = rebuild_by_address(c)
    /\ pub' = NoPub
    /\ UNCHANGED <<svcVars, wVars, hist, txVars, hVars, dimmer_cache,
                   manual_poll_event>>

ReloadStopped == \E c \in Configs : ReloadStoppedTo(c) /\ UNCHANGED sideVars

(***************************************************************************)
(* app/service.py: the broker command handlers.                            *)
(* A broker message is its topic below the base topic, as the slug and the *)
(* command path, and its payload.  A payload is its stripped, upper-cased  *)
(* text and, when float() parses it, its value in tenths.                  *)
(***************************************************************************)
Payload(text, num) == [text |-> text, num |-> num]

\* the num of a payload that float() rejects
NaN == 0 - 100000

\* an optional value: None, or Some(v)
Nothing == [some |-> FALSE]
Some(v) == [some |-> TRUE, value |-> v]

Command(slug, path, payload) == [slug |-> slug, path |-> path, payload |-> payload]

parse_on_off(payload) ==
    IF payload.text \in {"ON", "1", "TRUE", "OPEN", "UP"} THEN Some(TRUE)
    ELSE IF payload.text \in {"OFF", "0", "FALSE", "CLOSE", "DOWN"} THEN Some(FALSE)
    ELSE Nothing

\* int(float(payload)): truncation towards zero
parse_int(payload) ==
    IF payload.num = NaN THEN Nothing
    ELSE IF payload.num >= 0 THEN Some(payload.num \div 10)
    ELSE Some(-((-payload.num) \div 10))

\* float(payload), in tenths
parse_float(payload) ==
    IF payload.num = NaN THEN Nothing ELSE Some(payload.num)

parse_season(payload) ==
    IF payload.text \in {"0", "WINTER", "INVERNO"} THEN Some(0)
    ELSE IF payload.text \in {"1", "SUMMER", "ESTATE"} THEN Some(1)
    ELSE Nothing

\* int(round((raw_value / 255.0) * 100)), for raw_value > 100
Scale255ToPercent(raw_value) == (raw_value * 200 + 255) \div 510

\* what a handler has decided before its first transaction
Intent(action, board, channel, desired, legacy, frame, kind) ==
    [action |-> action, board |-> board, channel |-> channel,
     desired |-> desired, legacy |-> legacy, frame |-> frame,
     matcher |-> IF frame = ProtocolError THEN PollMatcher
                 ELSE EchoMatcher(kind, frame)]

\* None where a BoardConfig is expected
NoBoard == Board("", "", 0, 0, 0, FALSE, FALSE)

\* the handler returns without a transaction
Dropped == Intent("dropped", NoBoard, 0, 0, FALSE, ProtocolError, "echo1")

\* _handle_light_command, lines 456-484
light_intent(board, path, payload) ==
    LET legacy == path = <<"set">>
        channel == IF legacy THEN primary_channel(board) ELSE path[2]
        state == parse_on_off(payload)
    IN  IF ~legacy /\ ~(Len(path) = 3 /\ path[1] = "ch" /\ path[3] = "set")
        THEN Dropped
        ELSE IF ~InSeq(channel, channels(board)) THEN Dropped
        ELSE IF state = Nothing THEN Dropped
        ELSE Intent("light_set", board, channel, state.value, legacy,
                    build_light_control(board.address, channel, state.value),
                    "echo1")

\* _handle_shutter_command, lines 513-542
shutter_intent(board, path, payload) ==
    IF path # <<"set">> THEN Dropped
    ELSE IF payload.text \in {"OPEN", "UP", "ON", "1"}
    THEN Intent("shutter_set", board, primary_channel(board), TRUE, FALSE,
                build_shutter_control(board.address, primary_channel(board), TRUE),
                "echo2")
    ELSE IF payload.text \in {"CLOSE", "DOWN", "OFF", "0"}
    THEN Intent("shutter_set", board, primary_channel(board), FALSE, FALSE,
                build_shutter_control(board.address, primary_channel(board), FALSE),
                "echo2")
    ELSE Dropped

\* _handle_dimmer_command, lines 567-586: the percent, or None
dimmer_percent(cache, board, path, payload) ==
    IF path = <<"set">>
    THEN IF parse_on_off(payload) = Nothing THEN Nothing
         ELSE IF parse_on_off(payload).value
         THEN Some(Get(cache, board.board_id, 100))
         ELSE Some(0)
    ELSE IF path = <<"brightness", "set">>
    THEN IF parse_int(payload) = Nothing THEN Nothing
         ELSE IF parse_int(payload).value <= 100
         THEN Some(Max(0, Min(100, parse_int(payload).value)))
         ELSE Some(Max(0, Min(100, Scale255ToPercent(parse_int(payload).value))))
    ELSE Nothing

\* _handle_dimmer_command, lines 567-601
dimmer_intent(cache, board, path, payload) ==
    LET percent == dimmer_percent(cache, board, path, payload)
    IN  IF percent = Nothing THEN Dropped
        ELSE Intent("dimmer_set", board, 1, percent.value, FALSE,
                    build_dimmer_control(board.address, percent.value), "echo2")

\* _handle_thermostat_command, lines 630-647 and 664-676
thermostat_intent(board, path, payload) ==
    IF path = <<"setpoint", "set">>
    THEN IF parse_float(payload) = Nothing THEN Dropped
         ELSE Intent("setpoint_set", board, 1, parse_float(payload).value, FALSE,
                     build_set_point_temperature(board.address,
                                                 parse_float(payload).value),
                     "echo2")
    ELSE IF path = <<"season", "set">>
    THEN IF parse_season(payload) = Nothing THEN Dropped
         ELSE Intent("season_set", board, 1, parse_season(payload).value, FALSE,
                     build_set_season(board.address, parse_season(payload).value),
                     "echo1")
    ELSE Dropped

\* _handle_mqtt_command, lines 440-453: the handler of the board's kind
command_intent(cache, board, path, payload) ==
    CASE board.board_type = LIGHTS -> light_intent(board, path, payload)
      [] board.board_type = SHUTTERS -> shutter_intent(board, path, payload)
      [] board.board_type = DIMMER -> dimmer_intent(cache, board, path, payload)
      [] board.board_type = THERMOSTAT -> thermostat_intent(board, path, payload)
      [] OTHER -> Dropped

\* abs(polling.temperature_setpoint - setpoint) <= 0.6, both in tenths.
\* The source compares binary floating-point numbers: a difference of
\* exactly six tenths is within 0.6 for some pairs and above it for
\* others.  SetpointEdge lists the pairs of the values used here for which
\* the comparison is true.
SetpointEdge == {<<206, 212>>, <<212, 206>>}

setpoint_close(observed, desired) ==
    \/ Abs(observed - desired) < 6
    \/ Abs(observed - desired) = 6 /\ <<observed, desired>> \in SetpointEdge

\* the per-kind comparison of the readback snapshot with the desired state:
\* lines 488-490, 545-547, 604-608, 651 and 679
readback_matches(intent, polling) ==
    CASE intent.action = "light_set" ->
           BitSet(polling.outputs, intent.channel) = intent.desired
      [] intent.action = "shutter_set" ->
           BitSet(polling.outputs, primary_channel(intent.board)) = intent.desired
      [] intent.action = "dimmer_set" ->
           LET expected_bus == percent_to_bus_dimmer(intent.desired)
               observed_bus == IF polling.dimmer_0_10 >= 9 THEN 10
                               ELSE polling.dimmer_0_10
               wanted_bus == IF expected_bus >= 9 THEN 10 ELSE expected_bus
           IN  observed_bus = wanted_bus
      [] intent.action = "setpoint_set" ->
           setpoint_close(polling.temperature_setpoint, intent.desired)
      [] intent.action = "season_set" ->
           polling.season = intent.desired

\* _request_polling_status, lines 397-406: (poll_ok, polling)
request_polling_status(res) ==
    IF ~res.ok \/ res.rx = NoFrame THEN [ok |-> FALSE, polling |-> NoPolling]
    ELSE IF parse_polling_status(res.rx) = PollingError
    THEN [ok |-> FALSE, polling |-> NoPolling]
    ELSE [ok |-> TRUE, polling |-> parse_polling_status(res.rx)]

\* a decision that never looks at the readback
ack_outcome(intent, ack_ok, poll) == ack_ok

\* a decision that reports every command as done
told_ok(intent, ack_ok, poll) == TRUE

\* the decision of a command: lines 487-493 and their like
command_ok(intent, ack_ok, poll) ==
    IF poll.ok /\ poll.polling # NoPolling
    THEN readback_matches(intent, poll.polling)
    ELSE ack_ok

\* the detail text of an action/result record, as its parts
result_detail(intent, ok) ==
    IF ok THEN <<intent.action, intent.channel, intent.desired>>
    ELSE <<"timeout", intent.channel, intent.desired>>

\* the locally-desired state a successful command publishes when the
\* readback gave nothing: lines 505-509, 562-563, 622-624, 659-660, 687-688
desired_state_messages(intent) ==
    LET b == intent.board
    IN  CASE intent.action = "light_set" ->
               publish_light_channel_state(b, intent.channel, intent.desired)
               \o (IF intent.legacy
                   THEN <<Msg(b, <<"state">>, OnOff(intent.desired), TRUE)>>
                   ELSE <<>>)
          [] intent.action = "shutter_set" ->
               <<Msg(b, <<"state">>,
                     IF intent.desired THEN "opening" ELSE "closing", TRUE)>>
          [] intent.action = "dimmer_set" ->
               <<Msg(b, <<"state">>, OnOff(intent.desired > 0), TRUE),
                 Msg(b, <<"brightness", "state">>,
                     Brightness255(intent.desired), TRUE)>>
          [] intent.action = "setpoint_set" ->
               <<Msg(b, <<"setpoint", "state">>, intent.desired, TRUE)>>
          [] intent.action = "season_set" ->
               <<Msg(b, <<"season", "state">>, SeasonLabel(intent.desired), TRUE)>>

\* a handler that publishes the desired state after every command that
\* succeeded, with or without a readback
desired_after_readback(intent, ack_ok, poll) ==
    LET ok == command_ok(intent, ack_ok, poll)
    IN  (IF poll.ok /\ poll.polling # NoPolling
         THEN publish_board_state_from_polling(intent.board, poll.polling)
         ELSE <<>>)
        \o (IF ok THEN desired_state_messages(intent) ELSE <<>>)
        \o publish_action_result(intent.board, intent.action, ok,
                                 result_detail(intent, ok))

\* what a command publishes after its readback returned
command_messages(intent, ack_ok, poll) ==
    LET ok == command_ok(intent, ack_ok, poll)
    IN  (IF poll.ok /\ poll.polling # NoPolling
         THEN publish_board_state_from_polling(intent.board, poll.polling)
         ELSE <<>>)
        \o (IF ok /\ ~poll.ok THEN desired_state_messages(intent) ELSE <<>>)
        \o publish_action_result(intent.board, intent.action, ok,
                                 result_detail(intent, ok))

\* the dimmer cache after a command: the projection of the readback, then
\* lines 613-614
command_cache(cache, intent, poll) ==
    LET c == IF poll.ok /\ poll.polling # NoPolling
             THEN cache_from_polling(cache, intent.board, poll.polling)
             ELSE cache
    IN  IF intent.action = "dimmer_set" /\ intent.desired > 0
        THEN [k \in DOMAIN c \cup {intent.board.board_id} |->
                 IF k = intent.board.board_id THEN intent.desired ELSE c[k]]
        ELSE c

(***************************************************************************)
(* The broker thread: _handle_mqtt_command and the handler it calls.       *)
(*   "idle"      no callback is running                                    *)
(*   "poll"      {slug}/poll/set: inside _send_poll's transaction          *)
(*   "ack"       a device command: inside the echo-ack transaction         *)
(*   "readback"  a device command: inside _request_polling_status          *)
(*   "done"      the handler has published and is about to return; its     *)
(*               locals say how it ended (outcome): "dropped" without a    *)
(*               transaction, "raised" by a frame builder, "polled" after  *)
(*               {slug}/poll/set, "done" after a device command            *)
(***************************************************************************)
NoIntent == Intent("none", BoardL, 0, 0, FALSE, ProtocolError, "echo1")

HandlerLocals ==
    [intent |-> NoIntent, ack_ok |-> FALSE,
     poll |-> [ok |-> FALSE, polling |-> NoPolling], outcome |-> "none",
     board_slug |-> ""]

\* a routing that does not look at publish_enabled
routed_by_slug(by_topic, cmd) ==
    IF cmd.slug \notin DOMAIN by_topic THEN NoBoard ELSE by_topic[cmd.slug]

\* _handle_mqtt_command, lines 413-438: the board a command is routed to,
\* or None when the command is dropped
routed_board(by_topic, cmd) ==
    IF cmd.slug \notin DOMAIN by_topic THEN NoBoard
    ELSE IF ~publish_enabled(by_topic[cmd.slug]) THEN NoBoard
    ELSE by_topic[cmd.slug]

\* the broker thread delivers a message to _handle_mqtt_command: the part
\* of the handler up to its first transaction
HCommand(cmd) ==
    /\ hpc = "idle"
    /\ mqtt
    /\ tpc[Broker] = "idle"
    /\ pub' = PublishedBy(Broker, <<>>)
    /\ hist' = [hist EXCEPT !.waits = 0]
    /\ LET board == routed_board(boards_by_topic, cmd)
           intent == command_intent(dimmer_cache, board, cmd.path, cmd.payload)
       IN  IF board = NoBoard
           THEN /\ hloc' = [HandlerLocals EXCEPT !.outcome = "dropped",
                                                 !.board_slug = cmd.slug]
                /\ hpc' = "done"
                /\ UNCHANGED txVars
           ELSE IF cmd.path = <<"poll", "set">>
           THEN /\ hloc' = [HandlerLocals EXCEPT !.intent.board = board,
                                                 !.intent.action = "poll"]
                /\ hpc' = "poll"
                /\ TxCall(Broker, board.address, PollMatcher)
           ELSE IF intent.action = Dropped.action
           THEN /\ hloc' = [HandlerLocals EXCEPT !.outcome = "dropped"]
                /\ hpc' = "done"
                /\ UNCHANGED txVars
           ELSE IF intent.frame = ProtocolError
           THEN /\ hloc' = [HandlerLocals EXCEPT !.intent = intent,
                                                 !.outcome = "raised"]
                /\ hpc' = "done"
                /\ UNCHANGED txVars
           ELSE /\ hloc' = [HandlerLocals EXCEPT !.intent = intent]
                /\ hpc' = "ack"
                /\ TxCall(Broker, board.address, intent.matcher)
    /\ UNCHANGED <<svcVars, cfgVars, sideVars, wVars, dimmer_cache, manual_poll_event>>

\* {slug}/poll/set: _send_poll's transaction returned (lines 209-224)
HPollDone ==
    /\ hpc = "poll"
    /\ TxReturned(Broker)
    /\ pub' = PublishedBy(Broker, send_poll_messages(
                   boards_by_address, hloc.intent.board.address, txres[Broker]))
    /\ dimmer_cache' = send_poll_cache(dimmer_cache, boards_by_address,
                                       hloc.intent.board.address, txres[Broker])
    /\ hloc' = [hloc EXCEPT !.outcome = "polled"]
    /\ hpc' = "done"
    /\ UNCHANGED <<svcVars, cfgVars, sideVars, wVars, manual_poll_event>>

\* the echo-ack transaction returned; _request_polling_status starts the
\* readback transaction on the same address (lines 486, 389-396)
HAckDone ==
    /\ hpc = "ack"
    /\ tpc[Broker] = "ret"
    /\ hloc' = [hloc EXCEPT !.ack_ok = txres[Broker].ok]
    /\ hpc' = "readback"
    /\ tpc' = [tpc EXCEPT ![Broker] = "lock"]
    /\ txarg' = [txarg EXCEPT ![Broker] = [address |-> hloc.intent.board.address,
                                           matcher |-> PollMatcher]]
    /\ waiter' = [waiter EXCEPT ![Broker] = NoWaiter]
    /\ txres' = [txres EXCEPT ![Broker] = NoResult]
    /\ hist' = ForgetTx(hist, Broker)
    /\ pub' = NoPub
    /\ UNCHANGED <<transaction_lock, ack_waiters, svcVars, cfgVars, sideVars, wVars,
                   dimmer_cache, manual_poll_event>>

\* the readback returned: decide, publish, return (lines 487-510 and like)
HReadbackDone ==
    /\ hpc = "readback"
    /\ TxReturned(Broker)
    /\ LET poll == request_polling_status(txres[Broker])
       IN  /\ hloc' = [hloc EXCEPT !.poll = poll, !.outcome = "done"]
           /\ pub' = PublishedBy(Broker, command_messages(
                                      hloc.intent, hloc.ack_ok, poll))
           /\ dimmer_cache' = command_cache(dimmer_cache, hloc.intent, poll)
    /\ hpc' = "done"
    /\ UNCHANGED <<svcVars, cfgVars, sideVars, wVars, manual_poll_event>>

\* the handler returns to the broker client's loop; its locals are gone
HReturn ==
    /\ hpc = "done"
    /\ hpc' = "idle"
    /\ hloc' = HandlerLocals
    /\ pub' = NoPub
    /\ UNCHANGED <<hist, svcVars, cfgVars, sideVars, txVars, wVars, dimmer_cache,
                   manual_poll_event>>

(***************************************************************************)
(* The inputs: the frames the bus delivers and the messages the broker     *)
(* delivers.                                                               *)
(***************************************************************************)
\* the 10 data bytes of a polling reply
PollData(outputs, dimmer, sp_int, sp_dec, season) ==
    <<17, outputs, 0, dimmer, 22, 0, 0, sp_dec, sp_int, season>>

Rx(address, command, data) == parse_frame(build_frame(address, command, data))

\* frames for the lifecycle and scheduler specification
EngineFrames ==
    {Rx(a, CMD_POLLING_RESPONSE, PollData(1, 0, 20, 0, 0)) : a \in {1, 2}}
    \cup {Rx(1, CMD_LIGHT_CONTROL_START_FIRST_FOUR, <<CMD_LIGHT_DATA_RELAY_ON>>)}

\* frames for the transaction specification
TxFrames == EngineFrames \cup
    {Rx(1, CMD_LIGHT_CONTROL_START_FIRST_FOUR, <<CMD_LIGHT_DATA_RELAY_OFF>>)}

TxCommands ==
    {Command("luci1", <<"poll", "set">>, Payload("PRESS", NaN)),
     Command("luci1", <<"set">>, Payload("ON", NaN))}

\* frames for the command-handler specification: polling replies of both
\* addresses and the echoes of the commands
CmdFrames ==
    {Rx(1, CMD_POLLING_RESPONSE, PollData(0, 0, 20, 0, 0)),
     Rx(1, CMD_POLLING_RESPONSE, PollData(1, 0, 20, 6, 1)),
     Rx(1, CMD_POLLING_EXTENDED, PollData(2, 0, 21, 2, 0)),
     Rx(2, CMD_POLLING_RESPONSE, PollData(0, 0, 20, 0, 0)),
     Rx(2, CMD_POLLING_RESPONSE, PollData(1, 4, 20, 0, 0)),
     Rx(2, CMD_POLLING_EXTENDED, PollData(0, 9, 20, 0, 0)),
     Rx(2, CMD_POLLING_RESPONSE, PollData(1, 10, 20, 0, 0))}
    \cup {Rx(1, CMD_LIGHT_CONTROL_START_FIRST_FOUR + n, <<st>>) :
             n \in {0, 1},
             st \in {CMD_LIGHT_DATA_RELAY_ON, CMD_LIGHT_DATA_RELAY_OFF}}
    \cup {Rx(2, CMD_SHUTTER_CONTROL, <<1, act>>) :
             act \in {CMD_SHUTTER_DATA_UP, CMD_SHUTTER_DATA_DOWN}}
    \cup {Rx(2, CMD_DIMMER_CONTROL, <<CMD_DIMMER_DATA, l>>) : l \in {0, 4, 9}}
    \cup {Rx(1, CMD_SET_POINT_TEMPERATURE, <<20, 6>>),
          Rx(1, CMD_SET_SEASON, <<1>>), Rx(1, CMD_SET_SEASON, <<0>>)}

CmdCommands ==
    {Command("luci1", <<"set">>, Payload(t, NaN)) : t \in {"ON", "OFF", "TOGGLE"}}
    \cup {Command("luci1", <<"ch", n, "set">>, Payload("ON", NaN)) : n \in {2, 3}}
    \cup {Command("luci1", <<"poll", "set">>, Payload("PRESS", NaN))}
    \cup {Command("tapp1", <<"set">>, Payload(t, NaN)) :
             t \in {"OPEN", "CLOSE", "STOP"}}
    \cup {Command("dimm1", <<"set">>, Payload(t, NaN)) : t \in {"ON", "OFF"}}
    \cup {Command("dimm1", <<"brightness", "set">>, Payload("n", n)) :
             n \in {450, 1000, 2550}}
    \cup {Command("term1", <<"setpoint", "set">>, Payload("20.6", 206)),
          Command("term1", <<"season", "set">>, Payload("SUMMER", NaN)),
          Command("term1", <<"season", "set">>, Payload("0", 0)),
          Command("off1", <<"set">>, Payload("ON", NaN)),
          Command("mute1", <<"set">>, Payload("ON", NaN)),
          Command("nobody", <<"set">>, Payload("ON", NaN))}

(***************************************************************************)
(* The specifications.                                                     *)
(***************************************************************************)
\* no function of the codec has been called on its own
NoCall == [fn |-> "none", args |-> <<>>]
NoReturn == [done |-> FALSE, value |-> <<>>, inverted |-> FALSE, back |-> <<>>]
\* no ConfigStore, no file at its path, no port handle
NoConfig == [boards |-> <<>>, valid |-> FALSE]
NoFile == <<>>
ClosedPort ==
    [open |-> FALSE, open_failed |-> FALSE, wrote |-> FALSE,
     write_failed |-> FALSE]
SidesIdle ==
    /\ fn_call = NoCall
    /\ fn_ret = NoReturn
    /\ store_config = NoConfig
    /\ store_file = NoFile
    /\ store_calls = 0
    /\ serial_port = ClosedPort

\* BridgeService.__init__ over the stored configuration cfg: the variables
\* of the service
ServiceConstructed(cfg) ==
    /\ config = cfg
    /\ boards_by_topic = rebuild_by_topic(cfg)
    /\ boards_by_address = rebuild_by_address(cfg)
    /\ dimmer_cache = <<>>
    /\ running = FALSE
    /\ shutdown_event = FALSE
    /\ manual_poll_event = FALSE
    /\ poll_worker = 0
    /\ serial = FALSE
    /\ mqtt = FALSE
    /\ cpc = "idle"
    /\ transaction_lock = NoThread
    /\ ack_waiters = <<>>
    /\ waiter = [t \in Threads |-> NoWaiter]
    /\ tpc = [t \in Threads |-> "idle"]
    /\ txarg = [t \in Threads |-> NoArgs]
    /\ txres = [t \in Threads |-> NoResult]
    /\ wpc = [w \in Workers |-> "none"]
    /\ wloc = [w \in Workers |-> WorkerLocals]
    /\ hpc = "idle"
    /\ hloc = HandlerLocals
    /\ pub = NoPub
    /\ hist = History

Constructed(cfg) == SidesIdle /\ ServiceConstructed(cfg)

Init == Constructed(CfgA)

\* the service with its lifecycle, its scheduler, one broker thread and the
\* serial reader
Next ==
    \/ trigger_poll_all
    \/ start
    \/ StopBegin
    \/ ReloadBegin
    \/ StopMqtt
    \/ StopJoin
    \/ ReloadRestart
    \/ ReloadStopped
    \/ \E w \in Workers : poll_loop(w)
    \/ \E t \in Workers : send_with_ack(t)
    \/ \E f \in EngineFrames : handle_serial_frame(f)

Spec == Init /\ [][Next]_vars

\* the started service under configurations with every kind of board: the
\* command handlers on the broker thread and the serial reader.  With
\* auto_start off and no request to poll the scheduler sends nothing: it
\* goes to its wait and stays there, and its steps are left to Spec and
\* SpecTx.
InitCmd == \E cfg \in CmdConfigs : Constructed(cfg)

NextCmd ==
    \/ start
    \/ send_with_ack(Broker)
    \/ \E f \in CmdFrames : handle_serial_frame(f)
    \/ \E c \in CmdCommands : HCommand(c)
    \/ HPollDone
    \/ HAckDone
    \/ HReadbackDone
    \/ HReturn

SpecCmd == InitCmd /\ [][NextCmd]_vars

\* the started service: the scheduler and the command handlers compete for
\* the bus
InitTx == Constructed(CfgA)

NextTx ==
    \/ start
    \/ trigger_poll_all
    \/ \E w \in Workers : poll_loop(w)
    \/ \E t \in Threads : send_with_ack(t)
    \/ \E f \in TxFrames : handle_serial_frame(f)
    \/ \E c \in TxCommands : HCommand(c)
    \/ HPollDone
    \/ HAckDone
    \/ HReadbackDone
    \/ HReturn

SpecTx == InitTx /\ [][NextTx]_vars

\* the scheduler of a started service over configurations with several
\* addresses
InitSweep == \E cfg \in SweepConfigs : Constructed(cfg)

NextSweep ==
    \/ start
    \/ trigger_poll_all
    \/ \E w \in Workers : poll_loop(w)
    \/ \E w \in Workers : send_with_ack(w)
    \/ \E f \in EngineFrames : handle_serial_frame(f)

SpecSweep == InitSweep /\ [][NextSweep]_vars

\* _resolve_waiters over lists of up to MaxWaiters waiters, of any address
\* and matcher, a matcher that raises among them.  (In the service the list
\* holds one waiter at most.)
ResolveMatchers ==
    {PollMatcher,
     EchoMatcher("echo1", build_light_control(1, 1, TRUE)),
     Matcher("raise", 0, 0, 0)}

ResolveWaiters ==
    {AckWaiter(a, m) : a \in {1, 2}, m \in ResolveMatchers}

ResolveLists ==
    {list \in UNION {[1..n -> Threads] : n \in 0..MaxWaiters} :
        \A i, j \in 1..Len(list) : i # j => list[i] # list[j]}

InitResolve ==
    \E list \in ResolveLists :
      \E objects \in [Threads -> ResolveWaiters \cup {NoWaiter}] :
        /\ \A t \in Threads : InSeq(t, list) <=> objects[t] # NoWaiter
        /\ config = CfgA
        /\ boards_by_topic = rebuild_by_topic(CfgA)
        /\ boards_by_address = rebuild_by_address(CfgA)
        /\ dimmer_cache = <<>>
        /\ running = TRUE
        /\ shutdown_event = FALSE
        /\ manual_poll_event = FALSE
        /\ poll_worker = 1
        /\ serial = TRUE
        /\ mqtt = TRUE
        /\ cpc = "idle"
        /\ transaction_lock = IF list = <<>> THEN NoThread ELSE list[1]
        /\ ack_waiters = list
        /\ waiter = objects
        /\ tpc = [t \in Threads |-> IF InSeq(t, list) THEN "wait" ELSE "idle"]
        /\ txarg = [t \in Threads |->
                      IF InSeq(t, list)
                      THEN [address |-> objects[t].address,
                            matcher |-> objects[t].matcher]
                      ELSE NoArgs]
        /\ txres = [t \in Threads |-> NoResult]
        /\ wpc = [w \in Workers |-> IF w = 1 THEN "poll" ELSE "none"]
        /\ wloc = [w \in Workers |->
                     IF w = 1 THEN [WorkerLocals EXCEPT !.addresses = <<1>>,
                                                        !.auto_start = TRUE]
                     ELSE WorkerLocals]
        /\ hpc = "idle"
        /\ hloc = HandlerLocals
        /\ pub = NoPub
        /\ hist = History
        /\ SidesIdle

NextResolve == \E f \in TxFrames : handle_serial_frame(f)

SpecResolve == InitResolve /\ [][NextResolve]_vars

(***************************************************************************)
(* app/protocol.py on its own: one call of a function of the codec with    *)
(* arguments inside and outside its ranges, and the inverse function       *)
(* applied to what it returned.                                            *)
(***************************************************************************)
Call(fn, args) == [fn |-> fn, args |-> args]

\* the call returned value; the inverse function has not been applied
Return(value) ==
    [done |-> TRUE, value |-> value, inverted |-> FALSE, back |-> <<>>]

CodecAddresses == {-1, 0, 1, 2, 254, 255, 256}
CodecCommands == {0, CMD_POLLING_EXTENDED, 255}
CodecData ==
    {<<>>, <<1>>, <<261, -1, 256>>, [i \in 1..10 |-> i],
     [i \in 1..10 |-> 300 + i], [i \in 1..11 |-> i]}
CodecIndexes == -1..10
CodecPercents == -5..110
\* byte strings of 0, 1 and 13..16 bytes, with and without the start and
\* the end byte
CodecRaws ==
    {<<>>, <<FRAME_START_BYTE>>, <<FRAME_END_BYTE>>}
    \cup {<<first>> \o [i \in 1..(n - 2) |-> (k + i) % 256] \o <<last>> :
             first \in {FRAME_START_BYTE, FRAME_END_BYTE, 0},
             last \in {FRAME_END_BYTE, FRAME_START_BYTE},
             n \in 13..16, k \in {0, 100}}

\* parsed frames of polling replies and of other commands
CodecFrames ==
    {[address |-> 2, command |-> c,
      data |-> <<17, 5, 3, dimmer, 22, tenth, sign, 6, 20, season>>,
      extra |-> <<>>] :
        c \in {CMD_POLLING_EXTENDED, CMD_POLLING_RESPONSE, CMD_DIMMER_CONTROL, 0},
        dimmer \in {0, 4, 8, 9, 10, 255}, tenth \in {0, 5},
        sign \in {0, 45}, season \in {0, 1}}

InitCodec ==
    /\ \/ \E a \in CodecAddresses, c \in CodecCommands, d \in CodecData :
             fn_call = Call("build_frame", <<a, c, d>>)
       \/ \E raw \in CodecRaws : fn_call = Call("parse_frame", <<raw>>)
       \/ \E a \in CodecAddresses, n \in CodecIndexes, enabled \in BOOLEAN :
             fn_call = Call("build_light_control", <<a, n, enabled>>)
       \/ \E a \in CodecAddresses, n \in CodecIndexes, up \in BOOLEAN :
             fn_call = Call("build_shutter_control", <<a, n, up>>)
       \/ \E percent \in CodecPercents :
             fn_call = Call("percent_to_bus_dimmer", <<percent>>)
       \/ \E frame \in CodecFrames :
             fn_call = Call("parse_polling_status", <<frame>>)
    /\ fn_ret = NoReturn
    /\ store_config = NoConfig
    /\ store_file = NoFile
    /\ store_calls = 0
    /\ serial_port = ClosedPort
    /\ ServiceConstructed(CfgA)

\* the call of fn_call returns what fn computes
Returns(fn, value) ==
    /\ fn_call.fn = fn
    /\ ~fn_ret.done
    /\ fn_ret' = Return(value)
    /\ UNCHANGED <<fn_call, storeVars, serial_port, progVars, pub, hist>>

CallBuildFrame ==
    Returns("build_frame",
            build_frame(fn_call.args[1], fn_call.args[2],
                        fn_call.args[3]))

CallParseFrame ==
    Returns("parse_frame", parse_frame(fn_call.args[1]))

CallBuildLightControl ==
    Returns("build_light_control",
            build_light_control(fn_call.args[1], fn_call.args[2],
                                fn_call.args[3]))

CallBuildShutterControl ==
    Returns("build_shutter_control",
            build_shutter_control(fn_call.args[1], fn_call.args[2],
                                  fn_call.args[3]))

CallPercentToBusDimmer ==
    Returns("percent_to_bus_dimmer",
            percent_to_bus_dimmer(fn_call.args[1]))

CallParsePollingStatus ==
    Returns("parse_polling_status", parse_polling_status(fn_call.args[1]))

\* the inverse function applied to the value that fn returned
Inverts(fn, back) ==
    /\ fn_call.fn = fn
    /\ fn_ret.done
    /\ ~fn_ret.inverted
    /\ fn_ret' = [fn_ret EXCEPT !.inverted = TRUE, !.back = back]
    /\ UNCHANGED <<fn_call, storeVars, serial_port, progVars, pub, hist>>

\* parse_frame of the bytes that build_frame returned
ParseBuiltFrame ==
    /\ fn_call.fn = "build_frame"
    /\ fn_ret.done
    /\ fn_ret.value # ProtocolError
    /\ Inverts("build_frame", parse_frame(fn_ret.value))

\* bus_dimmer_to_percent of the level that percent_to_bus_dimmer returned
CallBusDimmerToPercent ==
    Inverts("percent_to_bus_dimmer", bus_dimmer_to_percent(fn_ret.value))

NextCodec ==
    \/ CallBuildFrame
    \/ CallParseFrame
    \/ CallBuildLightControl
    \/ CallBuildShutterControl
    \/ CallPercentToBusDimmer
    \/ CallParsePollingStatus
    \/ ParseBuiltFrame
    \/ CallBusDimmerToPercent

SpecCodec == InitCodec /\ [][NextCodec]_vars

(***************************************************************************)
(* app/models.py on its own: slugify over the names of up to MaxNameLen    *)
(* characters, and slugify of the slug it returned.                        *)
(***************************************************************************)
SlugChars == {"a", "A", "1", " ", "-", "_"}
SlugNames == UNION {[1..n -> SlugChars] : n \in 0..MaxNameLen}

InitSlug ==
    /\ \E name \in SlugNames : fn_call = Call("slugify", <<name>>)
    /\ fn_ret = NoReturn
    /\ store_config = NoConfig
    /\ store_file = NoFile
    /\ store_calls = 0
    /\ serial_port = ClosedPort
    /\ ServiceConstructed(CfgA)

CallSlugify == Returns("slugify", slugify(fn_call.args[1]))

\* slugify of the slug that slugify returned
SlugifyAgain == Inverts("slugify", slugify(fn_ret.value))

NextSlug == CallSlugify \/ SlugifyAgain

SpecSlug == InitSlug /\ [][NextSlug]_vars

\* The service as in Spec, without reload() of a stopped service, under
\* the scheduling of the threads: a thread that can take a step takes one,
\* a timed wait ends, and a caller inside stop() or reload() goes on.
\* Nobody has to ask for a poll, a start, a stop or a reload.
NextLive ==
    \/ trigger_poll_all
    \/ start
    \/ StopBegin
    \/ ReloadBegin
    \/ StopMqtt
    \/ StopJoin
    \/ ReloadRestart
    \/ \E w \in Workers : poll_loop(w)
    \/ \E t \in Workers : send_with_ack(t)
    \/ \E f \in EngineFrames : handle_serial_frame(f)

FairSpec ==
    /\ Init
    /\ [][NextLive]_vars
    /\ \A w \in Workers : WF_vars(poll_loop(w)) /\ WF_vars(send_with_ack(w))
    /\ WF_vars(StopMqtt)
    /\ WF_vars(StopJoin)
    /\ WF_vars(ReloadRestart)

(***************************************************************************)
(* The properties.                                                         *)
(***************************************************************************)
\* thread t is between the registration of its waiter and its return
InTransaction(t) == tpc[t] \in {"send", "wait", "expired"}

\* C1: at every point at most one transaction is between the registration
\* of its waiter and its return, over the poll worker and the command
\* handler; the waiter list never holds more than one waiter.
C1_OneTransaction ==
    /\ Cardinality({t \in Threads : InTransaction(t)}) <= 1
    /\ Len(ack_waiters) <= 1

\* C1: a thread is inside its transaction while another one asks for the
\* transaction lock
C1_Contended ==
    \E t, u \in Threads : t # u /\ InTransaction(t) /\ tpc[u] = "lock"

\* C2: _send_with_ack returns (true, f) only with a frame f of the waiter's
\* address that the predicate accepts and that came in after the
\* registration and before the deadline; when the send fails it returns
\* (false, none) without waiting; when the deadline passes with no such
\* frame it returns (false, none).
C2_SendWithAck ==
    \A t \in Threads :
        tpc[t] = "ret" =>
            /\ txres[t].ok =>
                 /\ txres[t].rx # NoFrame
                 /\ txres[t].rx.address = txarg[t].address
                 /\ matcher_call(txarg[t].matcher, txres[t].rx) = Accepted
                 /\ hist.seenMatch[t]
            /\ ~hist.sent[t] => txres[t] = NoResult /\ ~hist.waited[t]
            /\ hist.sent[t] /\ ~hist.seenMatch[t] =>
                 txres[t] = NoResult /\ hist.waited[t]

\* C2: an echo-ack transaction of a command has returned (true, f)
C2_EchoReturned ==
    /\ tpc[Broker] = "ret"
    /\ txres[Broker].ok
    /\ txarg[Broker].matcher.kind \in {"echo1", "echo2"}
    /\ hist.waited[Broker]

\* C3: the requests to poll made while the scheduler waits between two
\* iterations cause one sweep, not more: no batch of requests is followed by
\* two triggered sweeps.
C3_OneSweepPerBatch == hist.trigSweeps <= 1

\* is m an action/result record?
IsActionResult(m) ==
    Len(m.topic) = 3 /\ m.topic[2] = "action" /\ m.topic[3] = "result"

\* the device command of the broker thread has just published and returns
CommandDone == hpc = "done" /\ hloc.outcome = "done" /\ pub.by = Broker

\* C4: for every device command the success of the published action/result
\* is the per-kind comparison of the readback snapshot with the desired
\* state when the readback succeeded, and the outcome of the echo-ack
\* transaction otherwise.
C4_CommandSuccess ==
    CommandDone =>
        LET expected == IF hloc.poll.ok
                        THEN readback_matches(hloc.intent, hloc.poll.polling)
                        ELSE hloc.ack_ok
            results == SelectSeq(pub.msgs, IsActionResult)
        IN  /\ Len(results) = 1
            /\ results[1].payload.success = expected
            /\ results[1].payload.action = hloc.intent.action

\* C4: a command whose echo never came is reported as done because the
\* readback shows the desired state
C4_ReadbackDecides ==
    /\ CommandDone
    /\ ~hloc.ack_ok
    /\ hloc.poll.ok
    /\ readback_matches(hloc.intent, hloc.poll.polling)

\* C5: when neither the echo-ack nor the readback succeeds, a device
\* command goes through two timed waits at most, publishes one action/result
\* with success false and no state, and returns.
C5_TimeoutResult ==
    CommandDone /\ ~hloc.ack_ok /\ ~hloc.poll.ok =>
        /\ hist.waits <= 2
        /\ Len(pub.msgs) = 1
        /\ IsActionResult(pub.msgs[1])
        /\ pub.msgs[1].payload.success = FALSE

\* C5: both transactions of a command ran into their deadlines
C5_BothTimedOut ==
    CommandDone /\ ~hloc.ack_ok /\ ~hloc.poll.ok /\ hist.waits = 2

\* C6: a waiter is registered only when no earlier waiter is registered
\* any more, and the transaction lock is never released while the waiter of
\* its holder is still in the list.
C6_RegisterAfterResolve ==
    [][/\ \A t \in Threads :
            ~InSeq(t, ack_waiters) /\ InSeq(t, ack_waiters') =>
                ack_waiters = <<>> /\ transaction_lock' = t
       /\ transaction_lock # NoThread /\ transaction_lock' # transaction_lock =>
            ~InSeq(transaction_lock, ack_waiters')]_vars

\* C6: a transaction has returned and the next one has registered its
\* waiter
C6_NextRegistered ==
    \E t, u \in Threads :
        t # u /\ tpc[t] = "ret" /\ InSeq(u, ack_waiters) /\ transaction_lock = u

\* C7: for the frame f it is given, _resolve_waiters completes and removes
\* no waiter of another address or whose predicate rejects f or raises
\* (that waiter stays registered, untouched); the first waiter of the list
\* that accepts f captures f, is signalled and is removed.
C7_ResolveWaiters ==
    [][pub'.by = Reader =>
        LET f == pub'.frame
            Takes(t) == /\ waiter[t].address = f.address
                        /\ matcher_call(waiter[t].matcher, f) = Accepted
            Listed(t) == InSeq(t, ack_waiters)
        IN  /\ \A t \in Threads :
                 Listed(t) /\ ~Takes(t) =>
                     waiter'[t] = waiter[t] /\ InSeq(t, ack_waiters')
            /\ \A t \in Threads : ~Listed(t) => waiter'[t] = waiter[t]
            /\ \A i \in 1..Len(ack_waiters) :
                 (Takes(ack_waiters[i]) /\ \A j \in 1..(i - 1) :
                                              ~Takes(ack_waiters[j])) =>
                     /\ waiter'[ack_waiters[i]].event
                     /\ waiter'[ack_waiters[i]].frame = f
                     /\ ~InSeq(ack_waiters[i], ack_waiters')]_vars

\* C7: a frame has completed one waiter and left another one, of the same
\* address, whose predicate raises
C7_OneTakenOneLeft ==
    /\ pub.by = Reader
    /\ \E t, u \in Threads :
         /\ waiter[t].event
         /\ waiter[t].frame = pub.frame
         /\ InSeq(u, ack_waiters)
         /\ waiter[u].address = pub.frame.address
         /\ waiter[u].matcher.kind = "raise"

C9_SingleWorker == Cardinality({w \in Workers : Alive(w)}) <= 1

\* stop() has returned and neither start nor reload has run since
Stopped == ~running /\ cpc = "idle"

\* C10: after stop(), with no later start or reload, the polling scheduler
\* begins no further sweep, and it exits in the end, also when auto_start
\* is off and its wait has no deadline.
C10_ExitsAfterStop ==
    /\ [][Stopped => \A w \in Workers : ~WSweep(w)]_vars
    /\ Stopped ~> (~Stopped \/ \A w \in Workers : ~Alive(w))

\* C11: start() on a running service and stop() on a stopped one change no
\* state and create or stop no component; at every point the service has
\* started and not stopped at most one serial link, one broker link and one
\* poll worker.
C11_Idempotent ==
    /\ [][(running /\ start) \/ (~running /\ StopBegin) =>
             UNCHANGED <<progVars, hist>>]_vars
    /\ [](hist.serials <= 1 /\ hist.mqtts <= 1 /\ hist.workers <= 1)

\* C11: start() was called on a running service that owns its three
\* components, and returned
C11_StartedTwice ==
    /\ pub = Returned
    /\ running
    /\ hist.serials = 1 /\ hist.mqtts = 1 /\ hist.workers = 1

\* the devices of the configuration that a command names by its slug
Addressed(cmd) ==
    {i \in DOMAIN config.boards : topic_slug(config.boards[i]) = cmd.slug}

\* the command names no device, or only devices that are disabled or have
\* publish_enabled off
Undeliverable(cmd) ==
    \A i \in Addressed(cmd) :
        ~config.boards[i].enabled \/ ~publish_enabled(config.boards[i])

\* C12: a broker command to an unknown slug, to a disabled device or to a
\* device with publish_enabled off starts no transaction, sends no frame
\* and publishes nothing: the handler returns.
C12_DroppedCommand ==
    [][\A c \in CmdCommands :
          Undeliverable(c) /\ HCommand(c) =>
              /\ UNCHANGED <<txVars, dimmer_cache>>
              /\ pub'.msgs = <<>>
              /\ hpc' = "done"
              /\ hist'.sent = hist.sent]_vars

\* C12: the handler has dropped a command for a device that is in the slug
\* index and has publish_enabled off
C12_DroppedUnderMute ==
    /\ hpc = "done"
    /\ hloc.outcome = "dropped"
    /\ pub = PublishedBy(Broker, <<>>)
    /\ hloc.board_slug = "mute1"
    /\ "mute1" \in DOMAIN boards_by_topic

\* the addresses of cfg that have an enabled device, in ascending order
EnabledAddresses(cfg) ==
    SortedSeq({cfg.boards[i].address :
                  i \in {j \in DOMAIN cfg.boards : cfg.boards[j].enabled}})

\* C13: a sweep runs one polling transaction for every address with an
\* enabled device, in ascending order of the addresses, and none for an
\* address whose devices are all disabled.
C13_SweepAddresses ==
    [][\A w \in Workers :
          wpc[w] \in {"sweep", "poll"} /\ wpc'[w] = "loop" =>
              hist'.polled[w] = EnabledAddresses(config)]_vars

\* C13: a sweep over two addresses has ended, under a configuration that
\* has a third address with a disabled device only
C13_SweptTwo ==
    \E w \in Workers :
        /\ wpc[w] = "loop"
        /\ Len(hist.polled[w]) = 2
        /\ \E i \in DOMAIN config.boards : ~config.boards[i].enabled

\* {slug}/set ON for the dimmer of the command configurations
DimmerOn == Command("dimm1", <<"set">>, Payload("ON", NaN))

\* C14: every value held in the dimmer cache is a percent of 1..100, and a
\* dimmer /set ON restores a non-zero brightness: it never requests 0
\* percent.
C14_CacheNonZero ==
    /\ [](\A k \in DOMAIN dimmer_cache : dimmer_cache[k] \in 1..100)
    /\ [][HCommand(DimmerOn) /\ hpc' = "ack" => hloc'.intent.desired > 0]_vars

IsStateMessage(m) == ~IsActionResult(m)

\* the state messages of the step just taken, and whether its
\* action/result reports success
StateMessages == SelectSeq(pub.msgs, IsStateMessage)
ReportedSuccess ==
    \E i \in DOMAIN pub.msgs :
        IsActionResult(pub.msgs[i]) /\ pub.msgs[i].payload.success

\* C15: a command handler publishes the locally-desired state only when the
\* command succeeded and the readback did not; when the readback succeeded
\* the state it publishes is the projection of the readback snapshot, and
\* when the command fails without a readback it publishes no state.
C15_PublishedState ==
    CommandDone =>
        /\ hloc.poll.ok =>
              StateMessages = publish_board_state_from_polling(
                                  hloc.intent.board, hloc.poll.polling)
        /\ ~hloc.poll.ok /\ ReportedSuccess =>
              StateMessages = desired_state_messages(hloc.intent)
        /\ ~hloc.poll.ok /\ ~ReportedSuccess => StateMessages = <<>>

\* C15: a command whose echo came and whose readback timed out has
\* published its desired state
C15_DesiredPublished ==
    /\ CommandDone
    /\ ~hloc.poll.ok
    /\ ReportedSuccess
    /\ StateMessages # <<>>
    /\ StateMessages = desired_state_messages(hloc.intent)

\* bus_dimmer_to_percent has been applied to the level of a percent
DimmerReturned ==
    fn_call.fn = "percent_to_bus_dimmer" /\ fn_ret.inverted

RoundTrip(p) == bus_dimmer_to_percent(percent_to_bus_dimmer(p))

\* C16: bus_dimmer_to_percent(percent_to_bus_dimmer(p)) is monotonic
\* non-decreasing in p, 0 at p = 0 and 100 at p = 100.
C16_RoundTrip ==
    DimmerReturned =>
        LET p == fn_call.args[1]
        IN  /\ \A q \in CodecPercents : q <= p => RoundTrip(q) <= fn_ret.back
            /\ p = 0 => fn_ret.back = 0
            /\ p = 100 => fn_ret.back = 100

\* C16, amended: bus_dimmer_to_percent(percent_to_bus_dimmer(p)) is
\* monotonic non-decreasing in p, 0 at p = 0 and 90 at p = 100: the bus
\* level is capped at 9.
C16_RoundTripCapped ==
    DimmerReturned =>
        LET p == fn_call.args[1]
        IN  /\ \A q \in CodecPercents : q <= p => RoundTrip(q) <= fn_ret.back
            /\ p = 0 => fn_ret.back = 0
            /\ p = 100 => fn_ret.back = 90

\* C16: the round trip of 100 percent has returned 90
C16_FullBrightness ==
    DimmerReturned /\ fn_call.args[1] = 100 /\ fn_ret.back = 90

\* the call of fn has returned
HasReturned(fn) == fn_call.fn = fn /\ fn_ret.done

\* d masked to 8 bits and right-padded with zeros to 10 bytes
Padded(d) == [i \in 1..10 |-> IF i <= Len(d) THEN d[i] % 256 ELSE 0]

\* C17: for an address a of 1..254, a command byte c and a data list d of
\* at most 10 values, build_frame(a, c, d) is the 14 bytes 0x49, a, c, d
\* masked and padded, 0x46, and parse_frame of them yields a, c, the padded
\* data and an empty extra.
C17_BuildParse ==
    HasReturned("build_frame") =>
        LET a == fn_call.args[1]
            c == fn_call.args[2]
            d == fn_call.args[3]
        IN  a \in 1..254 /\ c \in 0..255 /\ Len(d) <= 10 =>
                /\ fn_ret.value = <<73, a, c>> \o Padded(d) \o <<70>>
                /\ Len(fn_ret.value) = 14
                /\ fn_ret.inverted =>
                      fn_ret.back = [address |-> a, command |-> c,
                                        data |-> Padded(d), extra |-> <<>>]

\* C17: a frame built from data outside the range of a byte has been
\* parsed back
C17_MaskedParsed ==
    /\ HasReturned("build_frame")
    /\ fn_ret.inverted
    /\ fn_call.args = <<254, 255, <<261, -1, 256>>>>
    /\ fn_ret.back.data = <<5, 255, 0, 0, 0, 0, 0, 0, 0, 0>>

\* C18: build_frame returns no frame for an address outside 1..254 or for
\* more than 10 data values, and build_shutter_control returns none for a
\* shutter index outside 1..4: they raise ProtocolError.
C18_Rejects ==
    /\ HasReturned("build_frame") =>
          (fn_call.args[1] \notin 1..254 \/ Len(fn_call.args[3]) > 10
              => fn_ret.value = ProtocolError)
    /\ HasReturned("build_shutter_control") =>
          (fn_call.args[2] \notin 1..4 => fn_ret.value = ProtocolError)

\* C18: build_shutter_control of a valid address and of shutter 5 has
\* raised
C18_ShutterFive ==
    /\ HasReturned("build_shutter_control")
    /\ fn_call.args = <<2, 5, TRUE>>
    /\ fn_ret.value = ProtocolError

\* 14 or 15 bytes, the first 0x49 and the last 0x46
WellFormed(raw) ==
    Len(raw) \in {14, 15} /\ raw[1] = 73 /\ raw[Len(raw)] = 70

\* C19: parse_frame accepts exactly the byte strings of 14 or 15 bytes that
\* start with 0x49 and end with 0x46; address, command and data are bytes
\* 1, 2 and 3..12, extra is the byte before the terminator of a 15-byte
\* frame and empty for a 14-byte frame; any other input raises.
C19_ParseFrame ==
    HasReturned("parse_frame") =>
        LET raw == fn_call.args[1]
        IN  IF WellFormed(raw)
            THEN fn_ret.value =
                     [address |-> raw[2], command |-> raw[3],
                      data |-> [i \in 1..10 |-> raw[3 + i]],
                      extra |-> IF Len(raw) = 15 THEN <<raw[14]>> ELSE <<>>]
            ELSE fn_ret.value = ParseError

\* C19: a frame of 15 bytes has been parsed and its extra byte returned
C19_ExtraReturned ==
    /\ HasReturned("parse_frame")
    /\ Len(fn_call.args[1]) = 15
    /\ fn_ret.value # ParseError
    /\ fn_ret.value.extra = <<fn_call.args[1][14]>>

\* C20: for a relay n of 1..8 build_light_control builds the frame of
\* command 0x51 + (n - 1) for n of 1..4 and 0x65 + (n - 5) for n of 5..8,
\* with the data byte 0x41 for ON and 0x53 for OFF; it rejects a relay
\* outside 1..8.
C20_LightControl ==
    HasReturned("build_light_control") =>
        LET a == fn_call.args[1]
            n == fn_call.args[2]
            enabled == fn_call.args[3]
        IN  /\ n \notin 1..8 => fn_ret.value = ProtocolError
            /\ n \in 1..8 /\ a \in 1..254 =>
                  /\ Len(fn_ret.value) = 14
                  /\ fn_ret.value[2] = a
                  /\ fn_ret.value[3] = IF n <= 4 THEN 81 + (n - 1)
                                          ELSE 101 + (n - 5)
                  /\ fn_ret.value[4] = IF enabled THEN 65 ELSE 83

\* C20: the frame that switches relay 5 on has been built with command 0x65
C20_RelayFive ==
    /\ HasReturned("build_light_control")
    /\ fn_call.args = <<2, 5, TRUE>>
    /\ fn_ret.value # ProtocolError
    /\ fn_ret.value[3] = 101

\* C21: parse_polling_status accepts the frames of command 0x40 or 0x50 and
\* rejects any other; it decodes data[0] as the device type, data[1] as the
\* outputs, data[2] as the inputs, data[3] as the dimmer with every raw
\* value above 8 read as 10, the temperature as data[4] + data[5]/10,
\* negated when data[6] is 0x2D, the setpoint as data[8] + data[7]/10 and
\* data[9] as the season (temperatures in tenths of a degree).
C21_PollingDecode ==
    HasReturned("parse_polling_status") =>
        LET f == fn_call.args[1]
            d == f.data
        IN  IF f.command \in {64, 80}
            THEN fn_ret.value =
                   [device_type |-> d[1], outputs |-> d[2], inputs |-> d[3],
                    dimmer_0_10 |-> IF d[4] > 8 THEN 10 ELSE d[4],
                    temperature |-> IF d[7] = 45 THEN -(10 * d[5] + d[6])
                                    ELSE 10 * d[5] + d[6],
                    temperature_setpoint |-> 10 * d[9] + d[8],
                    season |-> d[10]]
            ELSE fn_ret.value = PollingError

\* C21: a reply with the raw dimmer 9 and the sign byte 0x2D has been
\* decoded to the dimmer 10 and a temperature below zero
C21_NormalisedNegative ==
    /\ HasReturned("parse_polling_status")
    /\ fn_call.args[1].data[4] = 9
    /\ fn_ret.value.dimmer_0_10 = 10
    /\ fn_ret.value.temperature = -225

\* names that differ in the case of their letters only
SameButCase(x, y) ==
    Len(x) = Len(y) /\ \A i \in 1..Len(x) : LowerChar(x[i]) = LowerChar(y[i])

\* C22: slugify is idempotent, gives one slug to names that differ in
\* letter case only, and gives "board" for a name without a letter or a
\* digit (the empty name among them).
C22_Slugify ==
    HasReturned("slugify") =>
        LET name == fn_call.args[1]
        IN  /\ fn_ret.inverted => fn_ret.back = fn_ret.value
            /\ \A other \in SlugNames :
                  SameButCase(name, other) => slugify(other) = fn_ret.value
            /\ (\A i \in 1..Len(name) : ~IsAlnum(name[i]))
                  => fn_ret.value = <<"b", "o", "a", "r", "d">>

\* C22: the slug of a name with an upper-case letter between punctuation
\* has been slugified again
C22_SluggedTwice ==
    /\ HasReturned("slugify")
    /\ fn_ret.inverted
    /\ fn_call.args[1] = <<"-", "A", " ">>
    /\ fn_ret.value = <<"a">>
    /\ fn_ret.back = <<"a">>


(***************************************************************************)
(* SpecStore: the ConfigStore on its own.  It is opened on a path whose    *)
(* file is absent or present, then updated from dicts; fn_call and fn_ret  *)
(* hold the last call on it and what the call returned or raised.          *)
(***************************************************************************)
StoreTopics == {<<>>, <<"a">>, <<"A">>, <<"-", "a">>, <<"1">>}

\* two Lights boards named "a" and "1", at addresses 1 and 2
TopicPayloads ==
    {[boards |->
        <<[id |-> "x", name |-> <<"a">>, type |-> LIGHTS, address |-> 1,
           channel_start |-> 1, channel_end |-> 2, topic |-> t1,
           enabled |-> e1],
          [id |-> "y", name |-> <<"1">>, type |-> LIGHTS, address |-> 2,
           channel_start |-> 3, channel_end |-> 3, topic |-> t2,
           enabled |-> e2]>>] :
        t1 \in StoreTopics, t2 \in StoreTopics,
        e1 \in BOOLEAN, e2 \in BOOLEAN}

\* one Shutters board over a range of channels
ShutterPayloads ==
    {[boards |->
        <<[id |-> "1", name |-> <<"t">>, type |-> SHUTTERS, address |-> 4,
           channel_start |-> cs, channel_end |-> ce, topic |-> <<"t">>,
           enabled |-> TRUE]>>] :
        cs \in {0, 1, 2}, ce \in {1, 2, 4, 5}}

\* one Lights board with and without the publish_enabled key
PublishPayloads ==
    {[boards |->
        <<[id |-> "1", name |-> <<"n">>, type |-> LIGHTS, address |-> 2,
           channel_start |-> 1, channel_end |-> 1, topic |-> <<"n">>,
           enabled |-> TRUE]>>]}
    \cup
    {[boards |->
        <<[id |-> "1", name |-> <<"n">>, type |-> LIGHTS, address |-> 2,
           channel_start |-> 1, channel_end |-> 1, topic |-> <<"n">>,
           publish_enabled |-> p, enabled |-> TRUE]>>] : p \in BOOLEAN}

\* serial line parameters, supported and not
SerialPayloads ==
    {[serial |-> [baudrate |-> b, bytesize |-> bs, parity |-> pa,
                  stopbits |-> sb, timeout_sec |-> t]] :
        b \in {0, 9600}, bs \in {8, 15}, pa \in {"N", "e", "X", ""},
        sb \in {1, 9}, t \in {0, 25}}

\* the other settings, valid and not
SettingPayloads ==
    {[mqtt |-> [port |-> mp, base_topic |-> bt],
      polling |-> [interval_sec |-> iv, auto_start |-> FALSE],
      web |-> [port |-> wp]] :
        mp \in {0, 1883}, bt \in {"", "home"}, iv \in {0, 30},
        wp \in {0, 80}}

StorePayloads ==
    TopicPayloads \cup ShutterPayloads \cup PublishPayloads
        \cup SerialPayloads \cup SettingPayloads

\* the file at the path before the store is opened: absent, saved by an
\* earlier run, or written by hand with an interval of 0
StoreFiles ==
    {NoFile, AppConfig_to_dict(AppDefaults),
     [polling |-> [interval_sec |-> 0]],
     [boards |-> <<[id |-> "k", name |-> <<"k">>, type |-> DIMMER,
                    address |-> 9, channel |-> 2]>>]}

\* ConfigStore.__init__ returned: the store has a configuration
StoreOpened == "serial" \in DOMAIN store_config

InitStore ==
    /\ fn_call = NoCall
    /\ fn_ret = NoReturn
    /\ store_config = NoConfig
    /\ store_file \in StoreFiles
    /\ store_calls = 0
    /\ serial_port = ClosedPort
    /\ ServiceConstructed(CfgA)

\* ConfigStore.__init__, lines 14-18: self._config = self._load_or_create()
StoreOpen ==
    /\ fn_call = NoCall
    /\ \E disk_ok \in BOOLEAN :
          LET out == load_or_create(store_file, disk_ok)
          IN  /\ fn_call' = Call("ConfigStore", <<store_file>>)
              /\ fn_ret' = Return([raised |-> out.raised, value |-> out.value])
              /\ store_config' = IF out.raised = "" THEN out.store.config
                                 ELSE store_config
              /\ store_file' = out.store.file
    /\ UNCHANGED <<store_calls, serial_port, progVars, pub, hist>>

\* a caller of ConfigStore.update_from_dict, lines 26-30
UpdateFromDict ==
    /\ StoreOpened
    /\ store_calls < MaxUpdates
    /\ store_calls' = store_calls + 1
    /\ \E data \in StorePayloads, disk_ok \in BOOLEAN :
          LET out == update_from_dict(Store(store_config, store_file), data,
                                      disk_ok)
          IN  /\ fn_call' = Call("update_from_dict", <<data>>)
              /\ fn_ret' = Return([raised |-> out.raised, value |-> out.value])
              /\ store_config' = out.store.config
              /\ store_file' = out.store.file
    /\ UNCHANGED <<serial_port, progVars, pub, hist>>

NextStore == StoreOpen \/ UpdateFromDict

SpecStore == InitStore /\ [][NextStore]_vars

\* update_from_dict has returned or raised
Updated == fn_call.fn = "update_from_dict" /\ fn_ret.done

\* the enabled boards of a configuration
EnabledBoards(cfg) == {i \in 1..Len(cfg.boards) : cfg.boards[i].enabled}

\* C23: validation fails for every configuration in which two enabled
\* devices have the same topic slug, and the slug index of a configuration
\* that passed validation has one key per enabled device.
C23_UniqueSlugs ==
    Updated =>
        LET cfg == fn_ret.value.value
            en == EnabledBoards(cfg)
        IN  /\ (\E i, j \in en :
                   /\ i # j
                   /\ topic_slug(cfg.boards[i]) = topic_slug(cfg.boards[j]))
                => /\ fn_ret.value.raised # ""
                   /\ validate(cfg) # "ok"
            /\ fn_ret.value.raised = ""
                => /\ Cardinality(DOMAIN rebuild_by_topic(cfg))
                        = Cardinality(en)
                   /\ \A i \in en :
                         rebuild_by_topic(cfg)[topic_slug(cfg.boards[i])]
                            = cfg.boards[i]

\* C23 witnesses: topics "A" and "-a" of two enabled boards were rejected
\* as duplicates, and a configuration of two enabled boards was stored
C23_DuplicateRejected ==
    /\ Updated
    /\ fn_ret.value.raised = "duplicate"
    /\ Len(fn_ret.value.value.boards) = 2
    /\ fn_ret.value.value.boards[1].topic = <<"A">>
    /\ fn_ret.value.value.boards[2].topic = <<"-", "a">>
    /\ EnabledBoards(fn_ret.value.value) = {1, 2}



\* the call on the store raised ConfigError
StoreRejected == fn_ret.value.raised \notin {"", "OSError"}

\* the boards of the dict that update_from_dict was called with
GivenBoards == Get(fn_call.args[1], "boards", <<>>)

\* C26: update_from_dict preserves each board's publish_enabled flag: a
\* board given with publish_enabled false is returned, and stored, with
\* publish_enabled false.
C26_PublishFlagKept ==
    (Updated /\ fn_ret.value.raised = "")
    => \A i \in 1..Len(GivenBoards) :
          "publish_enabled" \in DOMAIN GivenBoards[i]
          => /\ "publish_enabled" \in DOMAIN fn_ret.value.value.boards[i]
             /\ fn_ret.value.value.boards[i]["publish_enabled"]
                   = GivenBoards[i]["publish_enabled"]
             /\ "publish_enabled" \in DOMAIN store_config.boards[i]
             /\ store_config.boards[i]["publish_enabled"]
                   = GivenBoards[i]["publish_enabled"]
             /\ "publish_enabled" \in DOMAIN store_file.boards[i]
             /\ store_file.boards[i]["publish_enabled"]
                   = GivenBoards[i]["publish_enabled"]

\* C27: for a Shutters device update_from_dict accepts a channel range
\* within 1..4 and stores both bounds as given, and rejects with
\* ConfigError a range whose channel_end is above 4.
C27_ShutterRange ==
    Updated
    => \A i \in 1..Len(GivenBoards) :
          GivenBoards[i].type = SHUTTERS
          => /\ (/\ 1 <= GivenBoards[i].channel_start
                 /\ GivenBoards[i].channel_start <= GivenBoards[i].channel_end
                 /\ GivenBoards[i].channel_end <= 4)
                => /\ ~StoreRejected
                   /\ fn_ret.value.raised = ""
                      => /\ fn_ret.value.value.boards[i].channel_start
                               = GivenBoards[i].channel_start
                         /\ fn_ret.value.value.boards[i].channel_end
                               = GivenBoards[i].channel_end
                         /\ store_config.boards[i].channel_end
                               = GivenBoards[i].channel_end
                         /\ store_file.boards[i].channel_end
                               = GivenBoards[i].channel_end
             /\ GivenBoards[i].channel_end > 4 => StoreRejected

\* C28: update_from_dict replaces an unsupported bytesize, parity or
\* stopbits and a non-positive timeout by the defaults 8, "N", 1 and 0.25;
\* it neither rejects nor stores them.
C28_SerialSanitized ==
    (/\ Updated
     /\ "serial" \in DOMAIN fn_call.args[1]
     /\ fn_call.args[1].serial.baudrate > 0)
    => LET given == fn_call.args[1].serial
           Sane(line) ==
               /\ given.bytesize = 15 => line.bytesize = 8
               /\ given.parity = "X" => line.parity = "N"
               /\ given.stopbits = 9 => line.stopbits = 1
               /\ given.timeout_sec <= 0 => line.timeout_sec = 25
       IN  /\ ~StoreRejected
           /\ fn_ret.value.raised = ""
              => /\ Sane(fn_ret.value.value.serial)
                 /\ Sane(store_config.serial)
                 /\ Sane(store_file.serial)

\* C29: a ConfigStore opened on a path with no file creates the file from
\* the default configuration, whose MQTT base_topic is "algodomo2mqtt".
C29_DefaultCreated ==
    (/\ fn_call.fn = "ConfigStore"
     /\ fn_call.args[1] = NoFile
     /\ fn_ret.value.raised = "")
    => /\ store_file # NoFile
       /\ store_file = AppConfig_to_dict(AppDefaults)
       /\ store_config = AppDefaults
       /\ fn_ret.value.value.mqtt.base_topic = "algodomo2mqtt"
       /\ store_file.mqtt.base_topic = "algodomo2mqtt"

(***************************************************************************)
(* SpecProjector: _publish_board_state_from_polling on its own, over the   *)
(* Lights boards of every channel range and a few polling snapshots.       *)
(***************************************************************************)
ProjectorOutputs == {0, 1, 2, 128, 165, 255}

ProjectorBoards ==
    {Board("luci", LIGHTS, 1, cs, ce, TRUE, p) :
        cs \in 1..8, ce \in 1..8, p \in BOOLEAN}

\* a PollingStatus with these outputs
Snapshot(outputs) ==
    [device_type |-> 1, outputs |-> outputs, inputs |-> 0, dimmer_0_10 |-> 0,
     temperature |-> 215, temperature_setpoint |-> 200, season |-> 0]

InitProjector ==
    /\ \E board \in ProjectorBoards, outputs \in ProjectorOutputs :
          /\ board.channel_start <= board.channel_end
          /\ fn_call = Call("publish_board_state_from_polling",
                            <<board, Snapshot(outputs)>>)
    /\ fn_ret = NoReturn
    /\ store_config = NoConfig
    /\ store_file = NoFile
    /\ store_calls = 0
    /\ serial_port = ClosedPort
    /\ ServiceConstructed(CfgA)

CallProjector ==
    Returns("publish_board_state_from_polling",
            publish_board_state_from_polling(fn_call.args[1],
                                             fn_call.args[2]))

NextProjector == CallProjector

SpecProjector == InitProjector /\ [][NextProjector]_vars

\* the positions of the ch/{n}/state messages in a list of messages
ChannelStates(msgs) ==
    {i \in 1..Len(msgs) :
        /\ Len(msgs[i].topic) = 4
        /\ msgs[i].topic[2] = "ch"
        /\ msgs[i].topic[4] = "state"}

\* C24: one invocation of the projector for a published Lights device with
\* channel range [start, end] publishes exactly end - start + 1
\* ch/{n}/state messages, one per channel n of the range, each ON or OFF
\* according to bit n - 1 of the snapshot's outputs.
C24_LightChannels ==
    (/\ fn_call.fn = "publish_board_state_from_polling"
     /\ fn_ret.done
     /\ publish_enabled(fn_call.args[1]))
    => LET board == fn_call.args[1]
           msgs == fn_ret.value
           chs == ChannelStates(msgs)
       IN  /\ Cardinality(chs) = board.channel_end - board.channel_start + 1
           /\ \A i \in chs :
                 msgs[i].topic[3] \in board.channel_start..board.channel_end
           /\ \A n \in board.channel_start..board.channel_end :
                 \E i \in chs :
                    /\ msgs[i].topic[3] = n
                    /\ msgs[i].payload
                          = OnOff(BitSet(fn_call.args[2].outputs, n))
                    /\ \A j \in chs : msgs[j].topic[3] = n => j = i

\* C24 witness: channels 2..4 of outputs 10100101 were published
C24_ThreeChannels ==
    /\ fn_call.fn = "publish_board_state_from_polling"
    /\ fn_ret.done
    /\ publish_enabled(fn_call.args[1])
    /\ fn_call.args[1].channel_start = 2
    /\ fn_call.args[1].channel_end = 4
    /\ fn_call.args[2].outputs = 165
    /\ Cardinality(ChannelStates(fn_ret.value)) = 3


(***************************************************************************)
(* SpecWeb: app/main.py and app/web.py.  The store is opened, the service  *)
(* is built on it, and POST /api/config updates the store and reloads the  *)
(* service.  Requests are served one at a time; fn_call holds the request  *)
(* being served and fn_ret its response, as the tuple of its status.       *)
(* Every configuration has polling.auto_start off: the scheduler only      *)
(* waits, its sweeps are in Spec.  stop() is followed by the exit of the   *)
(* process (main.py, lines 29-31) and is left to Spec as well.             *)
(***************************************************************************)
\* the body of a request: request.get_json(silent=True)
Body(is_dict, data) == [is_dict |-> is_dict, data |-> data]

WebBoard(id, address, topic, enabled) ==
    [id |-> id, name |-> <<"n">>, type |-> LIGHTS, address |-> address,
     channel_start |-> 1, channel_end |-> 2, topic |-> topic,
     enabled |-> enabled]

WebSettings(interval_sec, items) ==
    [polling |-> [interval_sec |-> interval_sec, auto_start |-> FALSE],
     boards |-> items]

\* bodies: not an object; valid ones with one and with two boards; two
\* boards of one slug; an interval of 0
WebBodies ==
    {Body(FALSE, WebSettings(30, <<>>)),
     Body(TRUE, WebSettings(30, <<WebBoard("x", 1, <<"a">>, TRUE)>>)),
     Body(TRUE, WebSettings(30, <<WebBoard("x", 1, <<"a">>, TRUE),
                                  WebBoard("y", 2, <<"1">>, TRUE)>>)),
     Body(TRUE, WebSettings(30, <<WebBoard("x", 1, <<"a">>, TRUE),
                                  WebBoard("y", 2, <<"A">>, TRUE)>>)),
     Body(TRUE, WebSettings(0, <<WebBoard("y", 2, <<"1">>, TRUE)>>))}

\* the files the program is started on
WebFiles ==
    {WebSettings(30, <<>>),
     WebSettings(30, <<WebBoard("z", 3, <<"z">>, TRUE)>>)}

\* main(), lines 22-25: the store opened on a file, the service built on it
InitWeb ==
    /\ fn_call = NoCall
    /\ fn_ret = NoReturn
    /\ \E file \in WebFiles :
          /\ store_config = load_or_create(file, TRUE).store.config
          /\ store_file = file
          /\ ServiceConstructed(store_config)
    /\ store_calls = 0
    /\ serial_port = ClosedPort

\* the handler of fn_call has saved the configuration and not yet returned
Reloading == fn_call.fn = "update_config" /\ ~fn_ret.done

\* update_config, lines 26-38, up to the call of service.reload(): the
\* responses 400 and 500, or the configuration saved
UpdateConfig ==
    /\ fn_call.fn = "update_config" => fn_ret.done
    /\ store_calls < MaxRequests
    /\ store_calls' = store_calls + 1
    /\ \E body \in WebBodies, disk_ok \in BOOLEAN :
          LET out == update_from_dict(Store(store_config, store_file),
                                      body.data, disk_ok)
          IN  /\ fn_call' = Call("update_config", <<body>>)
              /\ IF ~body.is_dict
                 THEN /\ fn_ret' = Return(<<400>>)
                      /\ UNCHANGED <<store_config, store_file>>
                 ELSE /\ fn_ret' = IF out.raised = "" THEN NoReturn
                                   ELSE IF out.raised = "OSError"
                                   THEN Return(<<500>>)
                                   ELSE Return(<<400>>)
                      /\ store_config' = out.store.config
                      /\ store_file' = out.store.file
    /\ pub' = NoPub
    /\ UNCHANGED <<serial_port, progVars, hist>>

\* service.reload() of line 32 on a running service
WebReloadBegin == Reloading /\ ReloadBegin

\* reload() of line 32 ends and the handler answers, line 33
WebReloadRestart ==
    /\ Reloading
    /\ ReloadRestartTo(store_config)
    /\ fn_ret' = Return(<<200>>)
    /\ UNCHANGED <<fn_call, storeVars, serial_port>>

\* service.reload() of line 32 on a stopped service, and the answer
WebReloadStopped ==
    /\ Reloading
    /\ ReloadStoppedTo(store_config)
    /\ fn_ret' = Return(<<200>>)
    /\ UNCHANGED <<fn_call, storeVars, serial_port>>

NextWeb ==
    \/ start
    \/ StopMqtt
    \/ StopJoin
    \/ UpdateConfig
    \/ WebReloadBegin
    \/ WebReloadRestart
    \/ WebReloadStopped
    \/ \E w \in Workers : WLoop(w) \/ WCfg(w) \/ WWaitEnter(w) \/ WWoken(w)
                             \/ WCheck(w)

SpecWeb == InitWeb /\ [][NextWeb]_vars

\* the body of the request being served is an object that validates
ValidBody(call) ==
    /\ call.fn = "update_config"
    /\ call.args[1].is_dict
    /\ validate(AppConfig_from_dict(call.args[1].data)) = "ok"

\* a step of reload(): it signals the components or replaces the
\* configuration
ReloadStep ==
    \/ cpc = "idle" /\ cpc' = "reload_mqtt"
    \/ cpc = "reload_restart" /\ cpc' = "idle"
    \/ config' # config
    \/ boards_by_topic' # boards_by_topic
    \/ boards_by_address' # boards_by_address

\* C25: a configuration update whose payload fails validation leaves the
\* stored configuration, the file and the running bridge unchanged, and the
\* bridge is reloaded only after the payload has been validated and saved.
C25_ValidateFirst ==
    [][/\ (store_calls' # store_calls /\ ~ValidBody(fn_call'))
            => /\ UNCHANGED <<store_config, store_file, progVars>>
               /\ fn_ret'.done
               /\ fn_ret'.value = <<400>>
       /\ (store_config' # store_config \/ store_file' # store_file)
            => store_calls' # store_calls /\ ValidBody(fn_call')
       /\ ReloadStep
            => /\ Reloading
               /\ ValidBody(fn_call)
               /\ store_config = AppConfig_from_dict(fn_call.args[1].data)
               /\ store_file = AppConfig_to_dict(store_config)
               /\ config' \in {config, store_config}]_vars

\* C25 witness: the running bridge was reloaded with the one board of a
\* first request, and a second request with two boards of one slug was
\* answered 400
C25_RejectedAfterReload ==
    /\ fn_call.fn = "update_config"
    /\ fn_ret.done
    /\ fn_ret.value = <<400>>
    /\ fn_call.args[1].is_dict
    /\ Len(fn_call.args[1].data.boards) = 2
    /\ store_calls = 2
    /\ running
    /\ Len(config.boards) = 1
    /\ config.boards[1].board_id = "x"
    /\ config = store_config


(***************************************************************************)
(* SpecSerial: app/serial_bridge.py under the scheduler's transactions.    *)
(* serial_port is the handle SerialBridge._serial; whether the port can be *)
(* opened and whether a write raises is for the line to decide.            *)
(***************************************************************************)
\* what send_frame returns and the handle it leaves
Sent(sent, port) == [sent |-> sent, port |-> port]

\* a send_frame that keeps the handle after a failed write
send_frame_keeps_handle(port, can_open, write_ok) ==
    IF ~port.open /\ ~can_open
    THEN Sent(FALSE, [open |-> FALSE, open_failed |-> TRUE, wrote |-> FALSE,
                      write_failed |-> FALSE])
    ELSE Sent(write_ok, [open |-> TRUE, open_failed |-> FALSE, wrote |-> TRUE,
                         write_failed |-> ~write_ok])

\* SerialBridge.send_frame, lines 46-67
send_frame(port, can_open, write_ok) ==
    IF ~port.open /\ ~can_open
    THEN Sent(FALSE, [open |-> FALSE, open_failed |-> TRUE, wrote |-> FALSE,
                      write_failed |-> FALSE])
    ELSE IF write_ok
    THEN Sent(TRUE, [open |-> TRUE, open_failed |-> FALSE, wrote |-> TRUE,
                     write_failed |-> FALSE])
    ELSE Sent(FALSE, [open |-> FALSE, open_failed |-> FALSE, wrote |-> TRUE,
                      write_failed |-> TRUE])

\* _send_frame, lines 226-230, and lines 244-247 of _send_with_ack
PortSend(t) ==
    /\ IF ~serial
       THEN TxSent(t, FALSE) /\ UNCHANGED serial_port
       ELSE \E can_open \in BOOLEAN, write_ok \in BOOLEAN :
               LET out == send_frame(serial_port, can_open, write_ok)
               IN  TxSent(t, out.sent) /\ serial_port' = out.port
    /\ UNCHANGED <<fnVars, storeVars>>

\* the reader thread, _run line 183: _open_serial opens the port, or fails
ReaderOpen ==
    /\ serial
    /\ ~serial_port.open
    /\ \E can_open \in BOOLEAN :
          serial_port' = [serial_port EXCEPT !.open = can_open]
    /\ pub' = NoPub
    /\ UNCHANGED <<progVars, hist, fnVars, storeVars>>

\* the reader thread, _run lines 203-216: the read raised, the port is
\* closed
ReaderLost ==
    /\ serial
    /\ serial_port.open
    /\ serial_port' = [serial_port EXCEPT !.open = FALSE]
    /\ pub' = NoPub
    /\ UNCHANGED <<progVars, hist, fnVars, storeVars>>

\* the reader thread, _run lines 192-202: a frame read from the open port
ReaderFrame(frame) == serial_port.open /\ handle_serial_frame(frame)

InitSerial == Constructed(CfgA)

NextSerial ==
    \/ start
    \/ trigger_poll_all
    \/ ReaderOpen
    \/ ReaderLost
    \/ \E f \in EngineFrames : ReaderFrame(f)
    \/ \E w \in Workers : poll_loop(w)
    \/ \E w \in Workers : TxAcquire(w) \/ PortSend(w) \/ TxSignalled(w)
                             \/ TxTimeout(w) \/ TxExpire(w)

SpecSerial == InitSerial /\ [][NextSerial]_vars

\* thread t is leaving the send of its transaction
Sending(t) == tpc[t] = "send" /\ tpc'[t] # "send"

\* the transaction of thread t fails: (False, None), the waiter discarded
\* and the lock released
TxFails(t) ==
    /\ tpc'[t] = "ret"
    /\ txres'[t] = [ok |-> FALSE, rx |-> NoFrame]
    /\ ~InSeq(t, ack_waiters')
    /\ transaction_lock' = NoThread

\* C30: when a serial write fails send_frame closes the port handle and
\* returns false, and the transaction that issued it fails; when the port
\* is closed and cannot be reopened send_frame returns false without
\* writing.
C30_WriteFailure ==
    [][\A t \in Workers :
          Sending(t)
          => /\ serial_port'.write_failed
                => ~serial_port'.open /\ TxFails(t)
             /\ (~serial_port.open /\ serial_port'.open_failed)
                => /\ ~serial_port'.wrote
                   /\ ~serial_port'.open
                   /\ TxFails(t)
             /\ tpc'[t] = "wait"
                => /\ serial_port'.open
                   /\ serial_port'.wrote
                   /\ ~serial_port'.write_failed]_vars

\* C30 witness: the write of a worker's poll raised; its transaction has
\* returned (False, None) and the handle is closed
C30_WriteRaised ==
    \E t \in Workers :
       /\ tpc[t] = "ret"
       /\ txres[t] = [ok |-> FALSE, rx |-> NoFrame]
       /\ serial_port.write_failed
       /\ serial_port.wrote
       /\ ~serial_port.open
       /\ transaction_lock = NoThread


(***************************************************************************)
(* The serial reader's handler, the indexes, the manual poll, the reader's *)
(* framing and the transactions between threads.                           *)
(***************************************************************************)
\* the step just taken published a message of this topic and payload
PublishedTo(step, topic, payload) ==
    \E i \in DOMAIN step.msgs :
        /\ step.msgs[i].topic = topic
        /\ step.msgs[i].payload = payload

\* the step just taken published a message of this topic
PublishedTopic(step, topic) ==
    \E i \in DOMAIN step.msgs : step.msgs[i].topic = topic

\* C31: every parsed inbound frame is offered to the waiter resolver and
\* passed to the general dispatch, whether or not it completed a waiter: the
\* waiters that accept it are completed and removed, a polling frame is
\* projected for every published device at its address and a relay frame
\* publishes the state of its channel.
C31_ResolveThenDispatch ==
    [][pub'.by = Reader
       => LET frame == pub'.frame
              boards == Get(boards_by_address, frame.address, <<>>)
          IN  /\ \A t \in Threads :
                    (InSeq(t, ack_waiters) /\ Accepts(waiter[t], frame))
                    => /\ waiter'[t].event
                       /\ waiter'[t].frame = frame
                       /\ ~InSeq(t, ack_waiters')
              /\ \A i \in 1..Len(boards) :
                    (mqtt /\ publish_enabled(boards[i]))
                    => /\ frame.command \in {CMD_POLLING_EXTENDED,
                                             CMD_POLLING_RESPONSE}
                          => PublishedTopic(pub', <<topic_slug(boards[i]),
                                                    "polling", "raw">>)
                       /\ (/\ frame.command = CMD_LIGHT_CONTROL_START_FIRST_FOUR
                           /\ At(frame.data, 0) \in {CMD_LIGHT_DATA_RELAY_ON,
                                                     CMD_LIGHT_DATA_RELAY_OFF}
                           /\ boards[i].board_type = LIGHTS
                           /\ InSeq(1, channels(boards[i])))
                          => PublishedTo(pub',
                                 <<topic_slug(boards[i]), "ch", 1, "state">>,
                                 OnOff(At(frame.data, 0)
                                          = CMD_LIGHT_DATA_RELAY_ON))]_vars

\* C31 witness: a relay frame that no waiter was waiting for has published
\* the state of channel 1 of luci1
C31_SpontaneousFrame ==
    /\ pub.by = Reader
    /\ pub.frame.command = CMD_LIGHT_CONTROL_START_FIRST_FOUR
    /\ PublishedTo(pub, <<"luci1", "ch", 1, "state">>, "ON")
    /\ ack_waiters = <<>>
    /\ \A t \in Threads : ~waiter[t].event


(***************************************************************************)
(* SpecIndex: the service of Spec with _rebuild_indexes in two steps, the  *)
(* indexes emptied (lines 163-164) and the indexes refilled (lines         *)
(* 166-170), as the threads that read them without _lock can see it.       *)
(***************************************************************************)
\* the configuration c before the loop of _rebuild_indexes has added a board
Emptied(c) == [c EXCEPT !.boards = <<>>]

\* reload(), line 105 and lines 163-164 of _rebuild_indexes: the new
\* configuration, the two indexes emptied
ReloadEmptied ==
    /\ \/ cpc = "reload_restart" /\ cpc' = "reload_fill"
       \/ config_lock_free /\ ~running /\ cpc' = "rebuild_fill"
    /\ \E c \in Configs :
          /\ config' = c
          /\ boards_by_topic' = rebuild_by_topic(Emptied(c))
          /\ boards_by_address' = rebuild_by_address(Emptied(c))
    /\ pub' = NoPub
    /\ UNCHANGED <<running, shutdown_event, poll_worker, serial, mqtt, wVars,
                   hist, txVars, hVars, dimmer_cache, manual_poll_event,
                   sideVars>>

\* lines 166-170 of _rebuild_indexes, then lines 108-111 of reload() when
\* the service was running
ReloadRefilled ==
    /\ cpc \in {"reload_fill", "rebuild_fill"}
    /\ boards_by_topic' = rebuild_by_topic(config)
    /\ boards_by_address' = rebuild_by_address(config)
    /\ cpc' = "idle"
    /\ pub' = NoPub
    /\ IF cpc = "reload_fill"
       THEN /\ FreeSlots # {}
            /\ shutdown_event' = FALSE
            /\ manual_poll_event' = FALSE
            /\ serial' = TRUE
            /\ mqtt' = TRUE
            /\ poll_worker' = NewWorker
            /\ wpc' = [wpc EXCEPT ![NewWorker] = "loop"]
            /\ wloc' = [wloc EXCEPT ![NewWorker] = WorkerLocals]
            /\ hist' = NoteStarted(NoBatch(hist))
       ELSE UNCHANGED <<shutdown_event, manual_poll_event, serial, mqtt,
                        poll_worker, wVars, hist>>
    /\ UNCHANGED <<config, running, txVars, hVars, dimmer_cache, sideVars>>

NextIndex ==
    \/ start
    \/ StopBegin
    \/ ReloadBegin
    \/ StopMqtt
    \/ StopJoin
    \/ ReloadEmptied
    \/ ReloadRefilled
    \/ \E w \in Workers : poll_loop(w)
    \/ \E t \in Workers : send_with_ack(t)
    \/ \E f \in EngineFrames : handle_serial_frame(f)

SpecIndex == Init /\ [][NextIndex]_vars

\* the two indexes are those of the active configuration
IndexesBuilt ==
    /\ boards_by_topic = rebuild_by_topic(config)
    /\ boards_by_address = rebuild_by_address(config)

\* C32: the device indexes are read only while holding the configuration
\* lock, so no poll, command handler or serial-frame dispatch observes an
\* index that reload has emptied and not yet refilled.
C32_IndexReadUnderLock ==
    [][((\E w \in Workers : WPollDone(w) \/ WSweep(w))
        \/ (\E f \in EngineFrames : handle_serial_frame(f)))
       => IndexesBuilt]_vars


(***************************************************************************)
(* SpecTrigger: the running service with its requests to poll and its      *)
(* reloads, under the fairness of FairSpec.  The history notes the request *)
(* that no sweep has followed yet and the sweep that began after it.       *)
(***************************************************************************)
\* trigger_poll_all, noted as a request that waits for its sweep
TriggerNoted ==
    /\ PollRequested
    /\ hist' = [NoteRequest(hist) EXCEPT !.pending = 1, !.sweeper = NoThread]

\* lines 192-194: the sweep of worker w begins; it is the sweep after the
\* request when a request waits for one
SweepNoted(w) ==
    /\ SweepBegins(w)
    /\ hist' = IF hist.pending = 1
               THEN [hist EXCEPT !.pending = 2, !.sweeper = w]
               ELSE hist

\* one step of the thread in slot w
noted_poll_loop(w) ==
    \/ WLoop(w)
    \/ WCfg(w)
    \/ WWaitEnter(w)
    \/ WWoken(w)
    \/ WWaitTimeout(w)
    \/ WCheck(w)
    \/ WClear(w)
    \/ SweepNoted(w)
    \/ WPollCall(w)
    \/ WPollDone(w)

InitTrigger == \E cfg \in Configs : Constructed(cfg)

\* the service is started and reloaded, never stopped
NextTrigger ==
    \/ TriggerNoted
    \/ start
    \/ ReloadBegin
    \/ StopMqtt
    \/ StopJoin
    \/ ReloadRestart
    \/ \E w \in Workers : noted_poll_loop(w)
    \/ \E t \in Workers : send_with_ack(t)
    \/ \E f \in EngineFrames : handle_serial_frame(f)

SpecTrigger ==
    /\ InitTrigger
    /\ [][NextTrigger]_vars
    /\ \A w \in Workers : WF_vars(noted_poll_loop(w)) /\ WF_vars(send_with_ack(w))
    /\ WF_vars(StopMqtt)
    /\ WF_vars(StopJoin)
    /\ WF_vars(ReloadRestart)

\* a sweep that began after the last request to poll has polled all its
\* addresses
SweptAfterRequest ==
    /\ hist.pending = 2
    /\ wpc[hist.sweeper] # "poll"

\* C33: while the service is running, every trigger_poll_all call is
\* eventually followed by a complete poll sweep that starts after the call,
\* also when the call comes during a sweep or during a reload.
C33_TriggerNeverLost ==
    (running /\ hist.pending = 1) ~> SweptAfterRequest


(***************************************************************************)
(* app/serial_bridge.py: the reader thread on a bus that carries one       *)
(* well-formed frame.  _run reads the bytes through _read_frame until none *)
(* is left and hands every frame that parse_frame accepts to the listener. *)
(***************************************************************************)
\* _read_frame returned None
NoRaw == <<>>

\* lines 162-171 of _read_frame: bytes are added until the end byte, until
\* FRAME_MAX_LENGTH bytes, or until the bus is silent up to the deadline
RECURSIVE read_until_end(_, _)
read_until_end(raw, rx) ==
    IF Len(raw) >= FRAME_MAX_LENGTH \/ rx = <<>> THEN <<raw, rx>>
    ELSE IF Head(rx) = FRAME_END_BYTE THEN <<Append(raw, Head(rx)), Tail(rx)>>
    ELSE read_until_end(Append(raw, Head(rx)), Tail(rx))

\* SerialBridge._read_frame on the unread bytes rx: what it returns and the
\* bytes it leaves unread
read_frame(rx) ==
    IF rx = <<>> THEN [raw |-> NoRaw, rest |-> <<>>]
    ELSE IF Head(rx) # FRAME_START_BYTE THEN [raw |-> NoRaw, rest |-> Tail(rx)]
    ELSE LET read == read_until_end(<<Head(rx)>>, Tail(rx))
             raw == read[1]
         IN  [raw |-> IF Len(raw) < FRAME_MIN_LENGTH THEN NoRaw
                      ELSE IF raw[Len(raw)] # FRAME_END_BYTE THEN NoRaw
                      ELSE raw,
              rest |-> read[2]]

\* SerialBridge._run, lines 192-203, until the bus is read out: the frames
\* handed to _on_frame
RECURSIVE run(_)
run(rx) ==
    IF rx = <<>> THEN <<>>
    ELSE LET read == read_frame(rx)
         IN  (IF read.raw = NoRaw THEN <<>>
              ELSE IF parse_frame(read.raw) = ParseError THEN <<>>
              ELSE <<parse_frame(read.raw)>>)
             \o run(read.rest)

\* frames of 14 bytes with the start byte, the end byte and other bytes as
\* address, as command and in each place of the data
BusAddresses == {1, FRAME_END_BYTE, FRAME_START_BYTE, 254}
BusCommands == {CMD_POLLING_RESPONSE, FRAME_END_BYTE, FRAME_START_BYTE}
BusData ==
    {[i \in 1..DATA_LENGTH |-> IF i = place THEN byte ELSE 0] :
        place \in 1..DATA_LENGTH, byte \in {1, FRAME_END_BYTE, FRAME_START_BYTE}}

InitReader ==
    /\ \E a \in BusAddresses, c \in BusCommands, d \in BusData :
          fn_call = Call("run", <<a, c, d>>)
    /\ fn_ret = NoReturn
    /\ store_config = NoConfig
    /\ store_file = NoFile
    /\ store_calls = 0
    /\ serial_port = ClosedPort
    /\ ServiceConstructed(CfgA)

\* the reader reads the frame of fn_call from the bus
ReaderRun ==
    Returns("run", run(build_frame(fn_call.args[1], fn_call.args[2],
                                   fn_call.args[3])))

NextReader == ReaderRun

SpecReader == InitReader /\ [][NextReader]_vars

\* C34: every well-formed 14-byte frame placed on the bus, for any address
\* in 1..254 and any command and data bytes, is delivered to the listener
\* as one parsed frame with the same address, command and data, also when
\* one of its bytes is 0x46 or 0x49.
C34_FrameDelivered ==
    (fn_call.fn = "run" /\ fn_ret.done)
    => fn_ret.value = <<[address |-> fn_call.args[1],
                         command |-> fn_call.args[2],
                         data |-> fn_call.args[3],
                         extra |-> <<>>]>>


\* the command handler is between the return of its echo-ack transaction
\* and the registration of its readback transaction
BetweenAckAndReadback ==
    \/ hpc = "ack" /\ tpc[Broker] = "ret"
    \/ hpc = "readback" /\ tpc[Broker] = "lock"

\* C35: between a command's echo-ack transaction and its readback polling
\* transaction no other transaction runs: the readback is the next
\* transaction on the bus after the echo-ack of the same command.
C35_ReadbackIsNext ==
    [][\A w \in Workers : TxAcquire(w) => ~BetweenAckAndReadback]_vars


\* the reader's step completes the transaction of thread t
Captured(t) == ~waiter[t].event /\ waiter'[t].event

\* C36: a transaction is completed only by a frame sent in reply to its own
\* request, so by a frame that comes after the request went out on the bus:
\* a reply to an earlier transaction on the same address, which comes late,
\* is never captured as the result of a later transaction.
C36_OwnReplyOnly ==
    [][pub'.by = Reader
       => \A t \in Threads : (InSeq(t, ack_waiters) /\ Captured(t)) => hist.sent[t]]_vars


\* C37: if the resolver captured a frame for a waiter (stored the frame,
\* signalled and removed the waiter), the owning _send_with_ack returns
\* (true, that frame): a frame consumed by a waiter is never thrown away by
\* a timeout racing with the resolver.
C37_CapturedIsReturned ==
    \A t \in Threads :
        (tpc[t] = "ret" /\ waiter[t].event)
        => (txres[t].ok /\ txres[t].rx = waiter[t].frame)


(***************************************************************************)
(* SpecBridge: the service started and stopped, with _send_frame in its    *)
(* two steps: the read of self._serial (line 227) and the call of          *)
(* send_frame on the bridge that was read (line 230).  serial_port is the  *)
(* handle of the bridge that start() made last; a start() while a stopped  *)
(* bridge has its handle open is left out, so that the handle is always    *)
(* that of one bridge.                                                     *)
(***************************************************************************)
\* start() with the handle of the new bridge closed
PortStart == ~serial_port.open /\ start

\* stop() of a running service, lines 89-94 and 152-154: SerialBridge.stop()
\* ends with _close_serial (serial_bridge.py line 44)
PortStop ==
    /\ config_lock_free
    /\ running
    /\ StopRunning
    /\ serial_port' = [serial_port EXCEPT !.open = FALSE]
    /\ UNCHANGED <<fnVars, storeVars>>

\* _send_frame, lines 227-229: the thread reads self._serial; with no
\* bridge it returns False
PortFetch(t) ==
    /\ tpc[t] = "send"
    /\ IF serial
       THEN /\ tpc' = [tpc EXCEPT ![t] = "fetched"]
            /\ pub' = NoPub
            /\ UNCHANGED <<transaction_lock, ack_waiters, waiter, txarg, txres,
                           hist, svcVars, cfgVars, wVars, hVars, dimmer_cache,
                           manual_poll_event>>
       ELSE TxSent(t, FALSE)
    /\ UNCHANGED sideVars

\* _send_frame, line 230: send_frame on the bridge that line 227 read, be
\* it stopped since or not
PortWrite(t) ==
    /\ \E can_open \in BOOLEAN, write_ok \in BOOLEAN :
          LET out == send_frame(serial_port, can_open, write_ok)
          IN  TxSentAt("fetched", t, out.sent) /\ serial_port' = out.port
    /\ UNCHANGED <<fnVars, storeVars>>

InitBridge == Constructed(CfgA)

NextBridge ==
    \/ PortStart
    \/ PortStop
    \/ StopMqtt
    \/ StopJoin
    \/ ReaderOpen
    \/ ReaderFrame(Rx(1, CMD_POLLING_RESPONSE, PollData(1, 0, 20, 0, 0)))
    \/ \E w \in Workers : poll_loop(w)
    \/ \E w \in Workers : TxAcquire(w) \/ PortFetch(w) \/ PortWrite(w)
                             \/ TxSignalled(w) \/ TxTimeout(w) \/ TxExpire(w)

SpecBridge == InitBridge /\ [][NextBridge]_vars

\* C38: after SerialBridge.stop() has returned the port handle of that
\* bridge stays closed: no concurrent or later send_frame on the stopped
\* bridge reopens the port.
C38_StoppedStaysClosed == ~serial => ~serial_port.open


(***************************************************************************)
(* SpecLive: the lifecycle, the scheduler, the command handler and the     *)
(* reader together, with the fairness of the threads: each thread that can *)
(* take a step takes one, a thread that waits for _transaction_lock gets   *)
(* it when it is released again and again, and loop_stop() ends the broker *)
(* client's thread between two of its messages.                            *)
(***************************************************************************)
LiveCommands == {Command("luci1", <<"poll", "set">>, Payload("PRESS", NaN))}

\* the polling reply of address 1
LiveFrames == {Rx(1, CMD_POLLING_RESPONSE, PollData(1, 0, 20, 0, 0))}

\* reload() with the configuration unchanged in the store
ReloadSame == ReloadRestartTo(config) /\ UNCHANGED sideVars

\* main(): start() once at line 26; stop() comes from the signal handler
\* (line 31), which ends the process, and no start() follows it
MainStart == ~shutdown_event /\ start

\* one step of the thread in slot w when nobody asks for a poll: line 185
\* is reached after a trigger_poll_all only, for the set() of stop() and
\* reload() comes with the shutdown that line 181 tests
unasked_poll_loop(w) ==
    \/ WLoop(w)
    \/ WCfg(w)
    \/ WWaitEnter(w)
    \/ WWoken(w)
    \/ WWaitTimeout(w)
    \/ WCheck(w)
    \/ WSweep(w)
    \/ WPollCall(w)
    \/ WPollDone(w)

NextLiveCmd ==
    \/ MainStart
    \/ StopBegin
    \/ ReloadBegin
    \/ StopMqtt
    \/ StopJoin
    \/ ReloadSame
    \/ \E w \in Workers : unasked_poll_loop(w)
    \/ \E t \in Threads : send_with_ack(t)
    \/ \E f \in LiveFrames : handle_serial_frame(f)
    \/ \E c \in LiveCommands : HCommand(c)
    \/ HPollDone
    \/ HReturn

SpecLive ==
    /\ Init
    /\ [][NextLiveCmd]_vars
    /\ \A t \in Threads : SF_vars(TxAcquire(t)) /\ WF_vars(send_with_ack(t))
    /\ \A w \in Workers : WF_vars(unasked_poll_loop(w))
    /\ WF_vars(HPollDone)
    /\ WF_vars(HReturn)
    /\ SF_vars(StopMqtt)
    /\ WF_vars(StopJoin)
    /\ WF_vars(ReloadSame)

\* thread t is inside _send_with_ack
InSendWithAck(t) == tpc[t] \in {"lock", "send", "wait", "expired"}

\* C39: no interleaving of the poll worker, the serial reader, the command
\* handlers and stop/reload deadlocks: every _send_with_ack call eventually
\* returns and releases the transaction lock, and every stop() and reload()
\* call eventually returns.
C39_NoDeadlock ==
    /\ \A t \in Threads :
          InSendWithAck(t) ~> (tpc[t] = "ret" /\ transaction_lock # t)
    /\ ~config_lock_free ~> config_lock_free

\* C39 witness: stop() has returned, and so has the transaction of a worker
\* that went through its timed wait; the transaction lock is free
C39_AllReturned ==
    /\ ~running /\ shutdown_event /\ config_lock_free
    /\ transaction_lock = NoThread
    /\ \E w \in Workers : tpc[w] = "ret" /\ hist.waited[w]


(***************************************************************************)
(* SpecRaise: the command handlers under a configuration that validation   *)
(* accepts, with a shutter on channel 5 and a thermostat, and payloads     *)
(* inside and outside the ranges of the frame builders.                    *)
(***************************************************************************)
BoardS5 == Board("tapp5", SHUTTERS, 2, 5, 5, TRUE, TRUE)
CfgRaise == [auto_start |-> FALSE, boards |-> <<BoardS, BoardS5, BoardT>>]

\* ConfigStore._validate, lines 67-90, on the boards of the service: every
\* board passes (the boards of the model have their id for name)
Validated(cfg) ==
    LET Named(b) == b @@ [name |-> <<b.board_id>>]
        named == [boards |-> [i \in 1..Len(cfg.boards) |-> Named(cfg.boards[i])]]
    IN  \A i \in 1..Len(cfg.boards) : BoardError(named, i) = "ok"

RaiseCommands ==
    {Command(slug, <<"set">>, Payload(t, NaN)) :
        slug \in {"tapp1", "tapp5"}, t \in {"OPEN", "CLOSE", "STOP"}}
    \cup {Command("term1", <<"setpoint", "set">>, Payload("20.6", 206)),
          Command("term1", <<"setpoint", "set">>, Payload("-1.5", 0 - 15)),
          Command("term1", <<"season", "set">>, Payload("SUMMER", NaN))}

RaiseFrames ==
    {Rx(a, CMD_POLLING_RESPONSE, PollData(1, 0, 20, 6, 1)) : a \in {1, 2}}
    \cup {Rx(2, CMD_SHUTTER_CONTROL, <<1, CMD_SHUTTER_DATA_UP>>),
          Rx(1, CMD_SET_POINT_TEMPERATURE, <<20, 6>>)}

InitRaise == Constructed(CfgRaise)

NextRaise ==
    \/ start
    \/ send_with_ack(Broker)
    \/ \E f \in RaiseFrames : handle_serial_frame(f)
    \/ \E c \in RaiseCommands : HCommand(c)
    \/ HAckDone
    \/ HReadbackDone
    \/ HReturn

SpecRaise == InitRaise /\ [][NextRaise]_vars

\* C40: for every device of a configuration accepted by validation and
\* every command payload the command handler returns normally and no
\* exception escapes into the broker callback, also for a Shutters device on
\* channel 5..8 and for a negative setpoint.
C40_HandlerNeverRaises == Validated(config) => hloc.outcome # "raised"

=============================================================================
